---- MODULE Spec2Model ----
(***************************************************************************)
(* A model of the repository's command-line scripts: the fact collectors   *)
(* (parsers of git / gh output), the classifiers, and each tool's scan     *)
(* loop and report.                                                        *)
(*                                                                         *)
(* Text is a sequence of one-character strings, so that strip(), lower(),  *)
(* startswith() and int() are computed and not assumed.  An Optional[T] is *)
(* a sequence of length at most one: None is << >> and a value x is <<x>>. *)
(***************************************************************************)
EXTENDS Integers, Sequences, FiniteSets, TLC

VARIABLES
    fn,          \* single call: the function called
    arg,         \* single call: its argument
    ret,         \* single call: the value returned
    pc,          \* position of the running tool / call
    tool,        \* the script that runs
    entries,     \* root.iterdir(): the child entries in the order yielded
    idx,         \* the scan loop's position in the entries
    verbose,     \* the --verbose flag
    stdout,      \* what the tool has printed, in order
    exit_code,   \* the process exit status, None while running
    facts,       \* history: what each external command answered, by class
    dirty,       \* uncommited.py main: dirty
    results,     \* abandoned_repo.py find_small_repos: results
    command,     \* git_it.py: the subcommand given on the command line
    uncommitted, \* git_it.py cmd_stranded: uncommitted
    unpushed,    \* git_it.py cmd_stranded: unpushed
    clean,       \* git_it.py cmd_stranded: clean
    non_git,     \* git_it.py cmd_stranded: non_git
    any_reported,\* git_it.py cmd_failing: any_reported
    stderr,      \* git_it.py: the report_error calls, in order
    ran,         \* git_it.py: history of the commands given to run_cmd
    HAD_ERRORS,  \* git_it.py: the global error flag
    lines,       \* gha_wrong_python.py: text.splitlines()
    i,           \* gha_wrong_python.py: the scanner's line index
    block,       \* gha_wrong_python.py: the open block's key indentation
    legacy_versions, \* gha_wrong_python.py: legacy_versions
    projects,    \* py314_support.py main: projects
    max_workers, \* py314_support.py main: args.max_workers
    futures,     \* py314_support.py: the futures of ex.map, in order
    support_results, \* py314_support.py main: results
    versions,    \* py314_support.py check_project: versions
    inspected,   \* py314_support.py: history of the releases inspected
    DRY_RUN,     \* clean_up_actions.py: the DRY_RUN setting
    log          \* clean_up_actions.py: the records the logger emitted, in order

callVars == <<fn, arg, ret>>

scanVars == <<tool, entries, idx, verbose, stdout, exit_code, facts>>

uncVars == <<dirty>>

abVars == <<results>>

gitLists ==
    <<command, uncommitted, unpushed, clean, non_git, any_reported, stderr, ran>>

gitVars == <<gitLists, HAD_ERRORS>>

ghaVars == <<lines, i, block, legacy_versions>>

poolVars == <<projects, max_workers, futures, support_results>>

checkVars == <<versions, inspected>>

pypiVars == <<poolVars, checkVars>>

cleanVars == <<DRY_RUN, log>>

vars ==
    <<callVars, pc, scanVars, uncVars, abVars, gitVars, ghaVars, pypiVars, cleanVars>>

\* the variables a tool leaves alone
offCall == <<uncVars, abVars, ghaVars, pypiVars, cleanVars>>

offUnc == <<callVars, abVars, gitVars, ghaVars, pypiVars, cleanVars>>

offAb == <<callVars, uncVars, gitVars, ghaVars, pypiVars, cleanVars>>

offGit == <<callVars, uncVars, abVars, ghaVars, pypiVars, cleanVars>>

offGha == <<callVars, scanVars, uncVars, abVars, gitVars, pypiVars, cleanVars>>

offPool == <<callVars, uncVars, abVars, gitVars, ghaVars, checkVars, cleanVars>>

offCheck == <<scanVars, uncVars, abVars, gitVars, ghaVars, poolVars, cleanVars>>

offClean == <<callVars, uncVars, abVars, gitVars, ghaVars, pypiVars>>

-----------------------------------------------------------------------------
(* Bounds of the model.                                                    *)

\* longest command output (in characters) given to int()
MaxOutLen == 3

\* longest generated version token (in characters)
MaxTokenLen == 4

\* most child entries of the scanned root directory
MaxEntries == 2

\* most lines of `git status --porcelain` output
MaxStatusLines == 2

\* most lines of a workflow file
MaxLines == 4

\* most (role, package) pairs PyPI lists for the user
MaxPackages == 3

\* most releases of a project
MaxReleases == 3

\* most runs in the answer of `gh run list`
MaxRuns == 2

\* most repositories gh lists for the user
MaxRepos == 2

-----------------------------------------------------------------------------
(* Python values and string methods.                                       *)

None == << >>

Some(x) == <<x>>

IsNone(o) == o = << >>

Whitespace == {" ", "\n", "\t"}

Digits == {"0", "1", "2", "3", "4", "5", "6", "7", "8", "9"}

DigitVal(c) ==
    CASE c = "0" -> 0 [] c = "1" -> 1 [] c = "2" -> 2 [] c = "3" -> 3
      [] c = "4" -> 4 [] c = "5" -> 5 [] c = "6" -> 6 [] c = "7" -> 7
      [] c = "8" -> 8 [] c = "9" -> 9

\* all sequences over S of length at most n
SeqsUpTo(S, n) == UNION {[1..k -> S] : k \in 0..n}

RECURSIVE LStrip(_)
LStrip(s) ==
    IF s # << >> /\ Head(s) \in Whitespace THEN LStrip(Tail(s)) ELSE s

RECURSIVE RStrip(_)
RStrip(s) ==
    IF s # << >> /\ s[Len(s)] \in Whitespace
    THEN RStrip(SubSeq(s, 1, Len(s) - 1))
    ELSE s

Strip(s) == RStrip(LStrip(s))

RECURSIVE DecVal(_)
DecVal(s) ==
    IF s = << >> THEN 0
    ELSE DecVal(SubSeq(s, 1, Len(s) - 1)) * 10 + DigitVal(s[Len(s)])

AllDigits(s) == s # << >> /\ \A k \in 1..Len(s) : s[k] \in Digits

\* int(text): surrounding whitespace is dropped, one sign is allowed, the
\* rest must be decimal digits; anything else raises ValueError (None here).
PyInt(text) ==
    LET t == Strip(text)
        signed == t # << >> /\ Head(t) \in {"+", "-"}
        body == IF signed THEN Tail(t) ELSE t
    IN  IF ~AllDigits(body) THEN None
        ELSE IF signed /\ Head(t) = "-" THEN Some(0 - DecVal(body))
        ELSE Some(DecVal(body))

UpperLetters ==
    <<"A", "B", "C", "D", "E", "F", "G", "H", "I", "J", "K", "L", "M",
      "N", "O", "P", "Q", "R", "S", "T", "U", "V", "W", "X", "Y", "Z">>

LowerLetters ==
    <<"a", "b", "c", "d", "e", "f", "g", "h", "i", "j", "k", "l", "m",
      "n", "o", "p", "q", "r", "s", "t", "u", "v", "w", "x", "y", "z">>

LowerChar(c) ==
    IF \E k \in DOMAIN UpperLetters : UpperLetters[k] = c
    THEN LowerLetters[CHOOSE k \in DOMAIN UpperLetters : UpperLetters[k] = c]
    ELSE c

\* str.lower()
Lower(s) == [k \in DOMAIN s |-> LowerChar(s[k])]

\* str.startswith(p)
StartsWith(s, p) == Len(s) >= Len(p) /\ SubSeq(s, 1, Len(p)) = p

\* index of the first occurrence of character c in s, 0 when absent
RECURSIVE FindChar(_, _, _)
FindChar(s, c, k) ==
    IF k > Len(s) THEN 0
    ELSE IF s[k] = c THEN k
    ELSE FindChar(s, c, k + 1)

\* str.split(sep) for a one-character separator
RECURSIVE Split(_, _)
Split(s, sep) ==
    LET k == FindChar(s, sep, 1)
    IN  IF k = 0 THEN <<s>>
        ELSE <<SubSeq(s, 1, k - 1)>> \o Split(SubSeq(s, k + 1, Len(s)), sep)

\* Python's ordering of tuples of integers (a proper prefix is smaller)
RECURSIVE TupleLess(_, _)
TupleLess(a, b) ==
    IF a = << >> THEN b # << >>
    ELSE IF b = << >> THEN FALSE
    ELSE IF Head(a) # Head(b) THEN Head(a) < Head(b)
    ELSE TupleLess(Tail(a), Tail(b))

-----------------------------------------------------------------------------
(* What a command printed, read off its characters.                        *)

\* p is a prefix of u, letter case ignored
PrefixIgnoringCase(u, p) ==
    /\ Len(u) >= Len(p)
    /\ \A k \in 1..Len(p) : u[k] = p[k] \/ LowerChar(u[k]) = p[k]

SameIgnoringCase(u, p) == Len(u) = Len(p) /\ PrefixIgnoringCase(u, p)

\* the stripped output is an optionally signed, non-empty run of digits
NumericOutput(out) ==
    \E k \in 0..1 :
        /\ Len(Strip(out)) > k
        /\ k = 1 => Strip(out)[1] \in {"+", "-"}
        /\ \A j \in (k + 1)..Len(Strip(out)) : Strip(out)[j] \in Digits

\* the stripped output denotes the number zero
ZeroOutput(out) ==
    /\ NumericOutput(out)
    /\ \A j \in 1..Len(Strip(out)) : Strip(out)[j] \in {"+", "-", "0"}

-----------------------------------------------------------------------------
(* git_it.py: run_cmd and the ahead-count fact collector.                  *)

OutChars == {"0", "2", "-", "x", "\n"}

Outputs == SeqsUpTo(OutChars, MaxOutLen)

\* run_cmd: (returncode, stdout) of a finished process, or (127, "") when
\* the executable is missing (FileNotFoundError).
RunCmdResults ==
    {[code |-> c, out |-> o, missing |-> FALSE] : c \in {0, 1, 128}, o \in Outputs}
        \cup {[code |-> 127, out |-> << >>, missing |-> TRUE]}

\* what `git rev-list --count` prints in the scans: a count, or text that
\* is no count
ScanCountTexts ==
    { <<"0", "\n">>, <<"2", "\n">>, <<"2", "0", "\n">>, <<"x", "\n">>, << >> }

get_unpushed_commit_count_zero(r) ==
    IF r.code # 0 THEN Some(0)
    ELSE IF IsNone(PyInt(Strip(r.out))) THEN Some(0)
    ELSE PyInt(Strip(r.out))

\* get_unpushed_commit_count, given what run_cmd returned
get_unpushed_commit_count(r) ==
    IF r.code # 0 THEN None
    ELSE PyInt(Strip(r.out))

\* whether get_unpushed_commit_count calls report_error
unpushed_reports_error(r) ==
    r.code # 0 \/ IsNone(PyInt(Strip(r.out)))

-----------------------------------------------------------------------------
(* gha_wrong_python.py: version parsing and the legacy test.               *)

PYTHON_VERSION_THRESHOLD == <<3, 14, 0>>

\* re.fullmatch(r"\d+(?:\.\d+){1,2}", version)
FullMatchVersion(v) ==
    LET parts == Split(v, ".")
    IN  /\ Len(parts) \in {2, 3}
        /\ \A k \in 1..Len(parts) : AllDigits(parts[k])

\* parse_version: None, or the (major, minor, patch) tuple padded with 0
parse_version(version) ==
    LET v == Strip(version)
        parts == Split(v, ".")
        nums == [k \in 1..Len(parts) |-> DecVal(parts[k])]
    IN  IF ~FullMatchVersion(v) THEN None
        ELSE IF Len(nums) = 2 THEN Some(nums \o <<0>>)
        ELSE Some(nums)

is_legacy_python_version_unpadded(version) ==
    LET v == Strip(version)
        parts == Split(v, ".")
    IN  IF ~FullMatchVersion(v) THEN FALSE
        ELSE TupleLess([k \in 1..Len(parts) |-> DecVal(parts[k])],
                       PYTHON_VERSION_THRESHOLD)

is_legacy_python_version(version) ==
    LET parsed == parse_version(version)
    IN  IF IsNone(parsed) THEN FALSE
        ELSE TupleLess(parsed[1], PYTHON_VERSION_THRESHOLD)

VersionChars == {"1", "3", "4", "9", ".", "x"}

\* version tokens handed to is_legacy_python_version
VersionTokens ==
    SeqsUpTo(VersionChars, MaxTokenLen)
        \cup { <<"3", ".", "1", "3", ".", "1">>, <<"3", ".", "1", "4", ".", "0">>,
               <<"3", ".", "1", "4", ".", "1">>, <<"3", ".", "1", "0">>,
               <<"2", ".", "7", ".", "1", "8">>, <<"1", "0", ".", "0">>,
               <<"3", ".", "1", ".", "2", ".", "3">>, <<"0", "3", ".", "0", "9">> }

-----------------------------------------------------------------------------
(* how_cloned.py: the origin URL and its classification.                   *)

\* get_origin_url, given the finished `git config --get` process
get_origin_url(r) ==
    IF r.code # 0 THEN None
    ELSE IF Strip(r.out) = << >> THEN None
    ELSE Some(Strip(r.out))

classify_clone_type_cased(url) ==
    IF IsNone(url) THEN "none"
    ELSE IF StartsWith(url[1], <<"g", "i", "t", "@">>)
            \/ StartsWith(url[1], <<"s", "s", "h", ":", "/", "/">>)
         THEN "ssh"
    ELSE IF StartsWith(url[1], <<"h", "t", "t", "p", ":", "/", "/">>)
            \/ StartsWith(url[1], <<"h", "t", "t", "p", "s", ":", "/", "/">>)
         THEN "https"
    ELSE "other"

classify_clone_type(url) ==
    IF IsNone(url) THEN "none"
    ELSE LET lowered == Lower(url[1])
         IN  IF StartsWith(lowered, <<"g", "i", "t", "@">>)
                \/ StartsWith(lowered, <<"s", "s", "h", ":", "/", "/">>)
             THEN "ssh"
             ELSE IF StartsWith(lowered, <<"h", "t", "t", "p", ":", "/", "/">>)
                     \/ StartsWith(lowered, <<"h", "t", "t", "p", "s", ":", "/", "/">>)
             THEN "https"
             ELSE "other"

UrlHeads ==
    { << >>, <<"g", "i", "t", "@">>, <<"G", "i", "t", "@">>, <<"G", "I", "T", "@">>,
      <<"g", "i", "t">>, <<"s", "s", "h", ":", "/", "/">>, <<"S", "S", "H", ":", "/", "/">>,
      <<"s", "s", "h", ":", "/">>, <<"h", "t", "t", "p", ":", "/", "/">>,
      <<"H", "T", "T", "P", ":", "/", "/">>, <<"h", "t", "t", "p", "s", ":", "/", "/">>,
      <<"H", "t", "t", "p", "s", ":", "/", "/">>, <<"h", "t", "t", "p", "s", ":", "/">>,
      <<"h", "t", "t", "p", "x", ":", "/", "/">>, <<"f", "t", "p", ":", "/", "/">>,
      <<"/">>, <<"x", "g", "i", "t", "@">> }

UrlTails == { << >>, <<"h">>, <<"h", "/", "r">>, <<"h", " ", "r">> }

UrlPads == { << >>, <<"\n">>, <<" ">> }

\* stdout of `git config --get remote.origin.url`
UrlOutputs ==
    { a \o h \o t \o b : a \in UrlPads, h \in UrlHeads, t \in UrlTails, b \in UrlPads }

OriginResults == {[code |-> c, out |-> o] : c \in {0, 1}, o \in UrlOutputs}

-----------------------------------------------------------------------------
(* not_mine.py: the fork test.                                             *)

Logins == {"alice", "bob", ""}

\* an "owner" object of gh's JSON: absent/null, or an object whose login is
\* absent or a string
OwnerObjects == {None} \cup {Some([login |-> l]) : l \in {None} \cup {Some(x) : x \in Logins}}

\* the JSON object of `gh repo view --json name,owner,isFork,parent`
RepoInfos ==
    {[isFork |-> f, owner |-> o, parent |-> p] :
        f \in {None, Some(FALSE), Some(TRUE)},
        o \in OwnerObjects,
        p \in {None} \cup {Some([owner |-> po]) : po \in OwnerObjects}}

\* d.get("login", "") on `x or {}`
LoginOf(owner) ==
    IF IsNone(owner) THEN ""
    ELSE IF IsNone(owner[1].login) THEN ""
    ELSE owner[1].login[1]

is_fork_of_other_user_any_fork(repo_info, username) ==
    LET is_fork == ~IsNone(repo_info.isFork) /\ repo_info.isFork[1]
        owner_login == LoginOf(repo_info.owner)
    IN  is_fork /\ owner_login = username

is_fork_of_other_user_known_parent(repo_info, username) ==
    LET is_fork == ~IsNone(repo_info.isFork) /\ repo_info.isFork[1]
        owner_login == LoginOf(repo_info.owner)
        parent_owner == IF IsNone(repo_info.parent) THEN None
                        ELSE repo_info.parent[1].owner
        parent_owner_login == LoginOf(parent_owner)
    IN  IF ~is_fork THEN FALSE
        ELSE /\ owner_login = username
             /\ parent_owner_login # ""
             /\ parent_owner_login # username

is_fork_of_other_user(repo_info, username) ==
    LET is_fork == ~IsNone(repo_info.isFork) /\ repo_info.isFork[1]
        owner_login == LoginOf(repo_info.owner)
        parent_owner == IF IsNone(repo_info.parent) THEN None
                        ELSE repo_info.parent[1].owner
        parent_owner_login == LoginOf(parent_owner)
    IN  IF ~is_fork THEN FALSE
        ELSE owner_login = username /\ parent_owner_login # username

Usernames == {"alice", "bob"}

-----------------------------------------------------------------------------
(* The scanned directory, shared by the tools.                             *)

EntryNames == {<<"a">>, <<"B">>, <<"b">>}

\* a child of the root: a file, a plain directory, or a directory holding
\* a .git entry
Entries ==
    {[name |-> n, is_dir |-> d, dotgit |-> g] :
        n \in EntryNames, d \in BOOLEAN, g \in BOOLEAN} \
    {[name |-> n, is_dir |-> FALSE, dotgit |-> TRUE] : n \in EntryNames}

\* root.iterdir(): distinct names, in an order the file system chooses
Listings ==
    {l \in SeqsUpTo(Entries, MaxEntries) :
        \A j, k \in 1..Len(l) : j # k => l[j].name # l[k].name}

Msg(kind, name) == <<kind, name>>

Printed(kind, name) == \E k \in 1..Len(stdout) : stdout[k] = Msg(kind, name)

PrintedKind(kind) == \E k \in 1..Len(stdout) : stdout[k][1] = kind

ScanIdle ==
    /\ tool = "none"
    /\ entries = << >>
    /\ idx = 0
    /\ verbose = FALSE
    /\ stdout = << >>
    /\ exit_code = None
    /\ facts = {}

CallIdle == fn = "" /\ arg = None /\ ret = None

UncIdle == dirty = << >>

AbIdle == results = << >>

GitIdle ==
    /\ command = ""
    /\ uncommitted = << >>
    /\ unpushed = << >>
    /\ clean = << >>
    /\ non_git = << >>
    /\ any_reported = FALSE
    /\ stderr = << >>
    /\ ran = << >>
    /\ HAD_ERRORS = FALSE

GhaIdle ==
    /\ lines = << >>
    /\ i = 0
    /\ block = None
    /\ legacy_versions = {}

PypiIdle ==
    /\ projects = << >>
    /\ max_workers = 0
    /\ futures = << >>
    /\ support_results = << >>
    /\ versions = << >>
    /\ inspected = << >>

CleanIdle == DRY_RUN = FALSE /\ log = << >>

-----------------------------------------------------------------------------
(* uncommited.py                                                           *)

StatusLines == {<<" ", "M", " ", "f">>, <<"?", "?", " ", "g">>, << >>, <<" ", " ">>}

\* a finished `git status --porcelain`: returncode and stdout.splitlines()
StatusResults ==
    {[code |-> c, out |-> o] :
        c \in {0, 128}, o \in SeqsUpTo(StatusLines, MaxStatusLines)}

\* [line for line in ... if line.strip()]
RECURSIVE NonBlank(_)
NonBlank(ls) ==
    IF ls = << >> THEN << >>
    ELSE IF Strip(Head(ls)) = << >> THEN NonBlank(Tail(ls))
    ELSE <<Head(ls)>> \o NonBlank(Tail(ls))

\* git_status_porcelain: (has_changes, lines)
git_status_porcelain(r) ==
    IF r.code # 0 THEN [has_changes |-> FALSE, lines |-> << >>]
    ELSE [has_changes |-> NonBlank(r.out) # << >>, lines |-> NonBlank(r.out)]

\* what the status command answered, for the history
StatusClass(r) ==
    IF r.code # 0 THEN "failed"
    ELSE IF \E k \in 1..Len(r.out) : \E j \in 1..Len(r.out[k]) : r.out[k][j] \notin Whitespace
    THEN "changes"
    ELSE "no_changes"

\* iter_git_repos' filter
unc_is_repo(e) == e.is_dir /\ e.dotgit

UncInit ==
    /\ tool = "uncommited"
    /\ pc = "scan"
    /\ entries \in Listings
    /\ idx = 1
    /\ verbose \in BOOLEAN
    /\ stdout = <<Msg("scanning", << >>)>>
    /\ exit_code = None
    /\ facts = {}
    /\ dirty = << >>
    /\ results = << >>
    /\ CallIdle /\ GitIdle /\ GhaIdle /\ PypiIdle /\ CleanIdle

\* iter_git_repos passes over an entry that is no directory with a .git
UncSkip ==
    /\ tool = "uncommited" /\ pc = "scan"
    /\ idx <= Len(entries)
    /\ ~unc_is_repo(entries[idx])
    /\ idx' = idx + 1
    /\ UNCHANGED <<offUnc, pc, tool, entries, verbose, stdout, exit_code,
                   facts, dirty>>

\* one iteration of main's loop over a repository
UncVisit ==
    /\ tool = "uncommited" /\ pc = "scan"
    /\ idx <= Len(entries)
    /\ unc_is_repo(entries[idx])
    /\ \E r \in StatusResults :
        LET repo == entries[idx].name
            st == git_status_porcelain(r)
            err == IF r.code # 0 THEN <<Msg("error", repo)>> ELSE << >>
        IN  /\ facts' = facts \cup {<<repo, "status", StatusClass(r)>>}
            /\ IF st.has_changes
               THEN /\ dirty' = Append(dirty, [repo |-> repo, lines |-> st.lines])
                    /\ stdout' = stdout \o err
               ELSE /\ dirty' = dirty
                    /\ stdout' = stdout \o err \o
                          (IF verbose THEN <<Msg("is_clean", repo)>> ELSE << >>)
    /\ idx' = idx + 1
    /\ UNCHANGED <<offUnc, pc, tool, entries, verbose, exit_code>>

\* the git executable is missing: subprocess.run raises FileNotFoundError,
\* which nothing catches; the interpreter exits with status 1
UncCrash ==
    /\ tool = "uncommited" /\ pc = "scan"
    /\ idx <= Len(entries)
    /\ unc_is_repo(entries[idx])
    /\ pc' = "crashed"
    /\ exit_code' = Some(1)
    /\ stdout' = Append(stdout, Msg("traceback", entries[idx].name))
    /\ UNCHANGED <<offUnc, tool, entries, idx, verbose, facts, dirty>>

unc_exit_status_verbose_zero(d, v) == IF d = << >> \/ v THEN 0 ELSE 1

\* main's return value
unc_exit_status(d, v) == IF d = << >> THEN 0 ELSE 1

\* the report after the loop, and the return
UncReport ==
    /\ tool = "uncommited" /\ pc = "scan"
    /\ idx > Len(entries)
    /\ IF dirty = << >>
       THEN stdout' = stdout \o
                (IF ~verbose THEN <<Msg("all_clean", << >>)>> ELSE << >>)
       ELSE stdout' = stdout \o <<Msg("changes_header", << >>)>>
                \o [k \in 1..Len(dirty) |-> Msg("changed", dirty[k].repo)]
                \o <<Msg("done_changes", << >>)>>
    /\ exit_code' = Some(unc_exit_status(dirty, verbose))
    /\ pc' = "done"
    /\ UNCHANGED <<offUnc, tool, entries, idx, verbose, facts, dirty>>

UncNext ==
    \/ UncSkip
    \/ UncVisit
    \/ UncCrash
    \/ UncReport

SpecUncommitted == UncInit /\ [][UncNext]_vars

-----------------------------------------------------------------------------
(* abandoned_repo.py                                                       *)

MIN_COMMITS == 10

\* stdout of `git rev-parse --is-inside-work-tree`
RevParseOutputs ==
    { <<"t", "r", "u", "e", "\n">>, <<"t", "r", "u", "e">>,
      <<"f", "a", "l", "s", "e", "\n">>, << >> }

RevParseResults == {[code |-> c, out |-> o] : c \in {0, 128}, o \in RevParseOutputs}

\* is_git_repo: returncode == 0 and stdout.strip() == "true"
is_inside_work_tree(r) == r.code = 0 /\ Strip(r.out) = <<"t", "r", "u", "e">>

\* a finished `git rev-list --count HEAD`
CountResults == {[code |-> c, out |-> o] : c \in {0, 128}, o \in ScanCountTexts}

get_commit_count_unknown(r) ==
    IF r.code # 0 THEN 0 - 1
    ELSE IF IsNone(PyInt(Strip(r.out))) THEN 0 - 1
    ELSE PyInt(Strip(r.out))[1]

\* get_commit_count
get_commit_count(r) ==
    IF r.code # 0 THEN 0
    ELSE IF IsNone(PyInt(Strip(r.out))) THEN 0
    ELSE PyInt(Strip(r.out))[1]

\* what the count command answered, for the history
CountClass(r) ==
    IF r.code # 0 THEN "failed"
    ELSE IF ~NumericOutput(r.out) THEN "non_numeric"
    ELSE IF ZeroOutput(r.out) THEN "zero"
    ELSE "nonzero"

\* the distinct (count, class) pairs the count command can lead to
CountOutcomes ==
    {[count |-> get_commit_count(r), class |-> CountClass(r)] : r \in CountResults}

AbInit ==
    /\ tool = "abandoned_repo"
    /\ pc = "scan"
    /\ entries \in Listings
    /\ idx = 1
    /\ verbose = FALSE
    /\ stdout = <<Msg("scanning", << >>)>>
    /\ exit_code = None
    /\ facts = {}
    /\ dirty = << >>
    /\ results = << >>
    /\ CallIdle /\ GitIdle /\ GhaIdle /\ PypiIdle /\ CleanIdle

\* find_small_repos passes over a file, or a directory git does not
\* report as a work tree
AbSkip ==
    /\ tool = "abandoned_repo" /\ pc = "scan"
    /\ idx <= Len(entries)
    /\ \/ ~entries[idx].is_dir
       \/ /\ entries[idx].is_dir
          /\ \E r \in RevParseResults : ~is_inside_work_tree(r)
    /\ idx' = idx + 1
    /\ UNCHANGED <<offAb, pc, tool, entries, verbose, stdout, exit_code,
                   facts, results>>

\* one iteration of find_small_repos over a repository
AbVisit ==
    /\ tool = "abandoned_repo" /\ pc = "scan"
    /\ idx <= Len(entries)
    /\ entries[idx].is_dir
    /\ \E r \in RevParseResults : is_inside_work_tree(r)
    /\ \E o \in CountOutcomes :
        /\ facts' = facts \cup {<<entries[idx].name, "count", o.class>>}
        /\ results' = IF o.count < MIN_COMMITS
                      THEN Append(results, [path |-> entries[idx].name, count |-> o.count])
                      ELSE results
    /\ idx' = idx + 1
    /\ UNCHANGED <<offAb, pc, tool, entries, verbose, stdout, exit_code>>

\* git is missing: subprocess.run raises FileNotFoundError, uncaught
AbCrash ==
    /\ tool = "abandoned_repo" /\ pc = "scan"
    /\ idx <= Len(entries)
    /\ entries[idx].is_dir
    /\ pc' = "crashed"
    /\ exit_code' = Some(1)
    /\ stdout' = Append(stdout, Msg("traceback", entries[idx].name))
    /\ UNCHANGED <<offAb, tool, entries, idx, verbose, facts, results>>

\* main's report after find_small_repos returned
AbReport ==
    /\ tool = "abandoned_repo" /\ pc = "scan"
    /\ idx > Len(entries)
    /\ IF results = << >>
       THEN stdout' = Append(stdout, Msg("none_found", << >>))
       ELSE stdout' = stdout \o <<Msg("small_header", << >>)>>
                \o [k \in 1..Len(results) |-> <<"small", results[k].path, results[k].count>>]
                \o <<Msg("total", << >>)>>
    /\ exit_code' = Some(0)
    /\ pc' = "done"
    /\ UNCHANGED <<offAb, tool, entries, idx, verbose, facts, results>>

AbNext ==
    \/ AbSkip
    \/ AbVisit
    \/ AbCrash
    \/ AbReport

SpecAbandoned == AbInit /\ [][AbNext]_vars

-----------------------------------------------------------------------------
(* git_it.py: the subcommands.                                             *)

Commands == {"stranded", "stranded-commits", "pull", "push", "failing"}

\* the characters of names, in code-point order
CharOrder == <<".">> \o UpperLetters \o <<"_">> \o LowerLetters

CharRank(c) == CHOOSE k \in DOMAIN CharOrder : CharOrder[k] = c

\* Python's < on strings
RECURSIVE StrLess(_, _)
StrLess(a, b) ==
    IF b = << >> THEN FALSE
    ELSE IF a = << >> THEN TRUE
    ELSE IF Head(a) # Head(b) THEN CharRank(Head(a)) < CharRank(Head(b))
    ELSE StrLess(Tail(a), Tail(b))

\* sorted(..., key=lambda p: p.name.lower()): a stable sort
RECURSIVE SortedByLowerName(_)
SortedByLowerName(ps) ==
    IF ps = << >> THEN << >>
    ELSE LET x == ps[Len(ps)]
             front == SortedByLowerName(SubSeq(ps, 1, Len(ps) - 1))
             after == {k \in 1..Len(front) :
                          StrLess(Lower(x.name), Lower(front[k].name))}
             at == IF after = {} THEN Len(front) + 1
                   ELSE CHOOSE k \in after : \A m \in after : k <= m
         IN  SubSeq(front, 1, at - 1) \o <<x>> \o SubSeq(front, at, Len(front))

IsDir(e) == e.is_dir

iter_child_dirs_unsorted(es) == SelectSeq(es, IsDir)

iter_child_dirs(es) == SortedByLowerName(SelectSeq(es, IsDir))

\* is_git_repo: (path / ".git").exists()
is_git_repo(e) == e.dotgit

GitStatusTexts == {<< >>, <<"\n">>, <<" ", "M", " ", "f", "\n">>}

\* run_cmd(["git", "status", "--porcelain"])
GitStatusResults ==
    {[code |-> c, out |-> o, missing |-> FALSE] : c \in {0, 128}, o \in GitStatusTexts}
        \cup {[code |-> 127, out |-> << >>, missing |-> TRUE]}

\* has_uncommitted_changes, given what run_cmd returned
has_uncommitted_changes(r) ==
    IF r.code # 0 THEN None ELSE Some(Strip(r.out) # << >>)

\* run_cmd's own report_error call, made when the executable is missing
run_cmd_reports(r, cmd) == IF r.missing THEN <<<<cmd, 127>>>> ELSE << >>

\* the report_error calls of one has_uncommitted_changes call
status_reports(r) ==
    run_cmd_reports(r, "status") \o
        (IF r.code # 0 THEN <<<<"status", r.code>>>> ELSE << >>)

\* the report_error calls of one get_unpushed_commit_count call
unpushed_reports(r) ==
    run_cmd_reports(r, "rev-list") \o
        (IF unpushed_reports_error(r) THEN <<<<"rev-list", r.code>>>> ELSE << >>)

\* what `git status --porcelain` answered, for the history
GitStatusClass(r) ==
    IF r.code # 0 THEN "failed"
    ELSE IF \E k \in 1..Len(r.out) : r.out[k] \notin Whitespace THEN "changes"
    ELSE "no_changes"

StatusOutcomes ==
    {[value |-> has_uncommitted_changes(r), reports |-> status_reports(r),
      class |-> GitStatusClass(r), missing |-> r.missing] : r \in GitStatusResults}

\* run_cmd(["git", "rev-list", "--count", "@{u}..HEAD"]) in the scans
AheadResults ==
    {[code |-> c, out |-> o, missing |-> FALSE] : c \in {0, 128}, o \in ScanCountTexts}
        \cup {[code |-> 127, out |-> << >>, missing |-> TRUE]}

AheadOutcomes ==
    {[value |-> get_unpushed_commit_count(r), reports |-> unpushed_reports(r),
      class |-> CountClass(r), missing |-> r.missing] : r \in AheadResults}

\* run_cmd of git fetch / pull / push: exit status, whether it printed
PlainResults ==
    {[code |-> c, out |-> o, missing |-> FALSE] :
        c \in {0, 1}, o \in {<< >>, <<"o", "k", "\n">>}}
        \cup {[code |-> 127, out |-> << >>, missing |-> TRUE]}

\* the report_error calls after fetch, pull or push
plain_reports(r, cmd) ==
    run_cmd_reports(r, cmd) \o
        (IF r.code # 0 THEN <<<<cmd, r.code>>>> ELSE << >>)

\* what fetch, pull or push printed through the tool
plain_prints(r, cmd, d) ==
    IF r.code = 0 /\ Strip(r.out) # << >> THEN <<Msg(cmd, d)>> ELSE << >>

\* report_error(d, cmd, code, ...) for each report, in order
Reported(d, reports) == [k \in 1..Len(reports) |-> <<d>> \o reports[k]]

-----------------------------------------------------------------------------
(* git_it.py: cmd_failing's reading of `gh run list`.                      *)

FAILURE == <<"f", "a", "i", "l", "u", "r", "e">>

\* the "conclusion" member of a run object: absent, null or a string
Conclusions ==
    {[kind |-> "absent", s |-> << >>], [kind |-> "null", s |-> << >>]}
        \cup {[kind |-> "str", s |-> c] :
                c \in { FAILURE, <<"F", "A", "I", "L", "U", "R", "E">>,
                        <<"F", "a", "i", "l", "u", "r", "e">>,
                        <<"s", "u", "c", "c", "e", "s", "s">>, << >>,
                        <<"f", "a", "i", "l", "u", "r", "e", "s">>,
                        <<"f", "a", "i", "l", "e", "d">> }}

\* stdout of gh: blank, text json.loads rejects, or a JSON list of at most
\* one run (--limit 1)
GhOutputs ==
    {[text |-> "blank", data |-> << >>], [text |-> "malformed", data |-> << >>],
     [text |-> "json", data |-> << >>]}
        \cup {[text |-> "json", data |-> <<[conclusion |-> c]>>] : c \in Conclusions}

GhRunResults ==
    {[code |-> c, out |-> o, missing |-> FALSE] : c \in {0, 1}, o \in GhOutputs}
        \cup {[code |-> 127, out |-> [text |-> "blank", data |-> << >>], missing |-> TRUE]}

\* str(run.get("conclusion", ""))
conclusion_of(run) ==
    CASE run.conclusion.kind = "absent" -> << >>
      [] run.conclusion.kind = "null" -> <<"N", "o", "n", "e">>
      [] run.conclusion.kind = "str" -> run.conclusion.s

is_failing_cased(r) ==
    /\ r.code = 0
    /\ r.out.text = "json"
    /\ r.out.data # << >>
    /\ conclusion_of(r.out.data[1]) = FAILURE

\* whether cmd_failing reaches its print for this answer
is_failing(r) ==
    /\ r.code = 0
    /\ r.out.text = "json"
    /\ r.out.data # << >>
    /\ Lower(conclusion_of(r.out.data[1])) = FAILURE

\* the report_error calls of one cmd_failing iteration
failing_reports(r) ==
    run_cmd_reports(r, "gh") \o
        (IF r.code # 0 THEN <<<<"gh", r.code>>>>
         ELSE IF r.out.text = "malformed" THEN <<<<"gh", r.code>>>>
         ELSE << >>)

\* what gh answered, for the history
RunsClass(r) ==
    IF r.code # 0 THEN "failed"
    ELSE IF r.out.text = "malformed" THEN "malformed"
    ELSE IF r.out.text = "blank" \/ r.out.data = << >> THEN "no_runs"
    ELSE IF r.out.data[1].conclusion.kind = "str"
            /\ SameIgnoringCase(r.out.data[1].conclusion.s, FAILURE) THEN "failure"
    ELSE "other"

FailingOutcomes ==
    {[failing |-> is_failing(r), reports |-> failing_reports(r),
      class |-> RunsClass(r)] : r \in GhRunResults}

-----------------------------------------------------------------------------
(* git_it.py: main and the loops of the subcommands.                       *)

Stranded == {"stranded", "stranded-commits"}

GitInit ==
    /\ tool = "git_it"
    /\ pc = "scan"
    /\ command \in Commands
    /\ verbose \in BOOLEAN
    /\ entries \in Listings
    /\ idx = 1
    /\ stdout = <<Msg("header", << >>)>>
    /\ exit_code = None
    /\ facts = {}
    /\ uncommitted = << >>
    /\ unpushed = << >>
    /\ clean = << >>
    /\ non_git = << >>
    /\ any_reported = FALSE
    /\ stderr = << >>
    /\ ran = << >>
    /\ HAD_ERRORS = FALSE
    /\ CallIdle /\ UncIdle /\ AbIdle /\ GhaIdle /\ PypiIdle /\ CleanIdle

\* the directory the loop is at
GitDir == iter_child_dirs(entries)[idx]

GitAt == tool = "git_it" /\ pc = "scan" /\ idx <= Len(iter_child_dirs(entries))

\* a child directory without .git: cmd_stranded files it under non_git,
\* the other subcommands pass over it
GitNonRepo ==
    /\ GitAt
    /\ ~is_git_repo(GitDir)
    /\ non_git' = IF command \in Stranded THEN Append(non_git, GitDir.name) ELSE non_git
    /\ idx' = idx + 1
    /\ UNCHANGED <<offGit, pc, tool, entries, verbose, stdout, exit_code, facts,
                   command, uncommitted, unpushed, clean, any_reported, stderr,
                   ran, HAD_ERRORS>>

is_clean_falsy(uncomm, unpushed_count) ==
    uncomm # Some(TRUE) /\ unpushed_count = Some(0)

is_clean_never(uncomm, unpushed_count) == FALSE

\* cmd_stranded: uncomm is False and (unpushed_count == 0)
is_clean(uncomm, unpushed_count) ==
    uncomm = Some(FALSE) /\ unpushed_count = Some(0)

\* one iteration of cmd_stranded over a repository; an executable that is
\* missing for one command of the iteration is missing for the other
GitStranded ==
    /\ GitAt
    /\ command \in Stranded
    /\ is_git_repo(GitDir)
    /\ \E st \in StatusOutcomes :
       \E ah \in {o \in AheadOutcomes : o.missing = st.missing} :
        LET d == GitDir.name
            uncomm == st.value
            unpushed_count == ah.value
            reports == Reported(d, st.reports \o ah.reports)
        IN  /\ uncommitted' = IF uncomm = Some(TRUE) THEN Append(uncommitted, d)
                              ELSE uncommitted
            /\ unpushed' = IF ~IsNone(unpushed_count) /\ unpushed_count[1] > 0
                           THEN Append(unpushed, <<d, unpushed_count[1]>>)
                           ELSE unpushed
            /\ clean' = IF is_clean(uncomm, unpushed_count)
                        THEN Append(clean, d)
                        ELSE clean
            /\ stderr' = stderr \o reports
            /\ HAD_ERRORS' = (HAD_ERRORS \/ reports # << >>)
            /\ facts' = facts \cup {<<d, "status", st.class>>, <<d, "count", ah.class>>}
            /\ ran' = ran \o <<<<d, "status">>, <<d, "rev-list">>>>
    /\ idx' = idx + 1
    /\ UNCHANGED <<offGit, pc, tool, entries, verbose, stdout, exit_code,
                   command, non_git, any_reported>>

\* one iteration of cmd_pull over a repository: fetch, then pull (git is
\* missing for both or for neither)
GitPull ==
    /\ GitAt
    /\ command = "pull"
    /\ is_git_repo(GitDir)
    /\ \E rf \in PlainResults :
       \E rp \in {r \in PlainResults : r.missing = rf.missing} :
        LET d == GitDir.name
            reports == Reported(d, plain_reports(rf, "fetch") \o plain_reports(rp, "pull"))
        IN  /\ stdout' = stdout \o <<Msg("pulling", d)>>
                    \o plain_prints(rf, "fetch", d) \o plain_prints(rp, "pull", d)
            /\ stderr' = stderr \o reports
            /\ HAD_ERRORS' = (HAD_ERRORS \/ reports # << >>)
            /\ facts' = facts \cup
                  {<<d, "fetch", IF rf.code = 0 THEN "ok" ELSE "failed">>,
                   <<d, "pull", IF rp.code = 0 THEN "ok" ELSE "failed">>}
            /\ ran' = ran \o <<<<d, "fetch">>, <<d, "pull">>>>
    /\ idx' = idx + 1
    /\ UNCHANGED <<offGit, pc, tool, entries, verbose, exit_code, command,
                   uncommitted, unpushed, clean, non_git, any_reported>>

should_push_unknown(count) == IsNone(count) \/ count[1] # 0

\* cmd_push: neither `count is None` nor `count == 0` made it continue
should_push(count) == ~IsNone(count) /\ count[1] # 0

\* one iteration of cmd_push over a repository
GitPush ==
    /\ GitAt
    /\ command = "push"
    /\ is_git_repo(GitDir)
    /\ \E ah \in AheadOutcomes :
       \E r \in {x \in PlainResults : x.missing = ah.missing} :
        LET d == GitDir.name
            count == ah.value
            pushes == should_push(count)
            reports == Reported(d, ah.reports \o
                          (IF pushes THEN plain_reports(r, "push") ELSE << >>))
        IN  /\ stdout' = stdout \o
                  (IF pushes THEN <<Msg("pushing", d)>> \o plain_prints(r, "push", d)
                   ELSE << >>)
            /\ stderr' = stderr \o reports
            /\ HAD_ERRORS' = (HAD_ERRORS \/ reports # << >>)
            /\ facts' = facts \cup {<<d, "count", ah.class>>}
            /\ ran' = ran \o <<<<d, "rev-list">>>> \o
                  (IF pushes THEN <<<<d, "push">>>> ELSE << >>)
    /\ idx' = idx + 1
    /\ UNCHANGED <<offGit, pc, tool, entries, verbose, exit_code, command,
                   uncommitted, unpushed, clean, non_git, any_reported>>

\* one iteration of cmd_failing over a repository
GitFailing ==
    /\ GitAt
    /\ command = "failing"
    /\ is_git_repo(GitDir)
    /\ \E o \in FailingOutcomes :
        LET d == GitDir.name
            reports == Reported(d, o.reports)
        IN  /\ stdout' = IF o.failing THEN Append(stdout, Msg("failing", d)) ELSE stdout
            /\ any_reported' = (any_reported \/ o.failing)
            /\ stderr' = stderr \o reports
            /\ HAD_ERRORS' = (HAD_ERRORS \/ reports # << >>)
            /\ facts' = facts \cup {<<d, "runs", o.class>>}
            /\ ran' = Append(ran, <<d, "gh">>)
    /\ idx' = idx + 1
    /\ UNCHANGED <<offGit, pc, tool, entries, verbose, exit_code, command,
                   uncommitted, unpushed, clean, non_git>>

Names(kind, ds) == [k \in 1..Len(ds) |-> Msg(kind, ds[k])]

\* what cmd_stranded prints after its loop
stranded_report ==
    (IF uncommitted # << >>
     THEN <<Msg("uncommitted_header", << >>)>> \o Names("uncommitted", uncommitted)
     ELSE <<Msg("no_uncommitted", << >>)>>)
    \o (IF unpushed # << >>
        THEN <<Msg("unpushed_header", << >>)>>
                \o [k \in 1..Len(unpushed) |-> Msg("unpushed", unpushed[k][1])]
        ELSE <<Msg("no_unpushed", << >>)>>)
    \o (IF verbose /\ clean # << >>
        THEN <<Msg("clean_header", << >>)>> \o Names("clean", clean) ELSE << >>)
    \o (IF verbose /\ non_git # << >>
        THEN <<Msg("non_git_header", << >>)>> \o Names("non_git", non_git) ELSE << >>)

git_exit_status_zero(had_errors) == 0

git_exit_status_inverted(had_errors) == IF had_errors THEN 0 ELSE 1

\* main's exit status
git_exit_status(had_errors) == IF had_errors THEN 1 ELSE 0

\* the loop is over: the subcommand's closing prints, then main's summary
\* line and sys.exit
GitFinish ==
    /\ tool = "git_it" /\ pc = "scan"
    /\ idx > Len(iter_child_dirs(entries))
    /\ stdout' = stdout
          \o (IF command \in Stranded THEN stranded_report ELSE << >>)
          \o (IF command = "failing" /\ ~any_reported
              THEN <<Msg("no_failing", << >>)>> ELSE << >>)
          \o (IF HAD_ERRORS THEN << >> ELSE <<Msg("completed_successfully", << >>)>>)
    /\ stderr' = IF HAD_ERRORS THEN Append(stderr, <<<< >>, "completed_with_errors", 1>>)
                 ELSE stderr
    /\ exit_code' = Some(git_exit_status(HAD_ERRORS))
    /\ pc' = "done"
    /\ UNCHANGED <<offGit, tool, entries, idx, verbose, facts, command, uncommitted,
                   unpushed, clean, non_git, any_reported, ran, HAD_ERRORS>>

GitNext ==
    \/ GitNonRepo
    \/ GitStranded
    \/ GitPull
    \/ GitPush
    \/ GitFailing
    \/ GitFinish

SpecGitIt == GitInit /\ [][GitNext]_vars

-----------------------------------------------------------------------------
(* gha_wrong_python.py: the workflow scanner.                             *)

Quotes == {"\"", "'"}

\* the text "python-version"
KeyText ==
    <<"p", "y", "t", "h", "o", "n", "-", "v", "e", "r", "s", "i", "o", "n">>

\* `sub in s`
Contains(s, sub) ==
    \E k \in 1..(Len(s) - Len(sub) + 1) : SubSeq(s, k, k + Len(sub) - 1) = sub

\* index just past the longest run of digits of s that starts at k
RECURSIVE DigitRunEnd(_, _)
DigitRunEnd(s, k) ==
    IF k <= Len(s) /\ s[k] \in Digits THEN DigitRunEnd(s, k + 1) ELSE k

\* one attempt of the pattern ["\']?(\d+(?:\.\d+){1,2})["\']? at position p:
\* None, or the captured group and the position after the match
MatchVersionAt(s, p) ==
    LET q == IF p <= Len(s) /\ s[p] \in Quotes THEN p + 1 ELSE p
        a == DigitRunEnd(s, q)
        b == DigitRunEnd(s, a + 1)
        c == DigitRunEnd(s, b + 1)
        two == b <= Len(s) /\ s[b] = "." /\ c > b + 1
        e == IF two THEN c ELSE b
    IN  IF a > q /\ a <= Len(s) /\ s[a] = "." /\ b > a + 1
        THEN Some([group |-> SubSeq(s, q, e - 1),
                   next |-> IF e <= Len(s) /\ s[e] \in Quotes THEN e + 1 ELSE e])
        ELSE None

\* pattern.findall(text) from position p on: the non-overlapping matches,
\* left to right
RECURSIVE FindAllVersions(_, _)
FindAllVersions(s, p) ==
    IF p > Len(s) THEN << >>
    ELSE LET m == MatchVersionAt(s, p)
         IN  IF IsNone(m) THEN FindAllVersions(s, p + 1)
             ELSE <<m[1].group>> \o FindAllVersions(s, m[1].next)

extract_versions_from_text(text) == FindAllVersions(text, 1)

\* the versions of a fragment that the scanner adds to legacy_versions
LegacyIn(text) ==
    LET vs == extract_versions_from_text(text)
    IN  {vs[k] : k \in {j \in 1..Len(vs) : is_legacy_python_version(vs[j])}}

\* len(line) - len(line.lstrip())
Indent(line) == Len(line) - Len(LStrip(line))

\* "python-version" in line and ":" in line
IsKeyLine(line) == Contains(line, KeyText) /\ FindChar(line, ":", 1) # 0

\* line.split(":", 1)[1].strip()
AfterColon(line) ==
    Strip(SubSeq(line, FindChar(line, ":", 1) + 1, Len(line)))

\* not stripped or stripped.startswith("#")
IsSkipped(sub) == Strip(sub) = << >> \/ StartsWith(Strip(sub), <<"#">>)

dedent_strict(sub_indent, indent) == sub_indent < indent

\* sub_indent <= indent: the line closes the block
dedent(sub_indent, indent) == sub_indent <= indent

\* `  python-version:`
BlockKey ==
    <<" ", " ", "p", "y", "t", "h", "o", "n", "-", "v", "e", "r", "s", "i",
      "o", "n", ":">>

\* `    - "3.10"`
Member310 ==
    <<" ", " ", " ", " ", "-", " ", "\"", "3", ".", "1", "0", "\"">>

\* `    - "3.13.1"`
Member3131 ==
    <<" ", " ", " ", " ", "-", " ", "\"", "3", ".", "1", "3", ".", "1",
      "\"">>

\* `  python-version: "3.14"`
Inline314 ==
    <<" ", " ", "p", "y", "t", "h", "o", "n", "-", "v", "e", "r", "s", "i",
      "o", "n", ":", " ", "\"", "3", ".", "1", "4", "\"">>

\* `  python-version: ["3.9", "3.14"]`
InlineList ==
    <<" ", " ", "p", "y", "t", "h", "o", "n", "-", "v", "e", "r", "s", "i",
      "o", "n", ":", " ", "[", "\"", "3", ".", "9", "\"", ",", " ", "\"",
      "3", ".", "1", "4", "\"", "]">>

\* ``
BlankLine ==
<< >>

\* `    # 3.8`
CommentLine ==
    <<" ", " ", " ", " ", "#", " ", "3", ".", "8">>

\* `  node: 2.7`
SiblingLine ==
    <<" ", " ", "n", "o", "d", "e", ":", " ", "2", ".", "7">>

\* `    python-version: 3.12`
NestedKey ==
    <<" ", " ", " ", " ", "p", "y", "t", "h", "o", "n", "-", "v", "e", "r",
      "s", "i", "o", "n", ":", " ", "3", ".", "1", "2">>

\* the lines a workflow file is made of
LinePool ==
    {BlockKey, Member310, Member3131, Inline314, InlineList,
     BlankLine, CommentLine, SiblingLine, NestedKey}

\* text.splitlines() of the scanned files
Texts == SeqsUpTo(LinePool, MaxLines)

\* what the scanner computes of a line, per line of the pool
LineFacts ==
    [l \in LinePool |->
        [key |-> IsKeyLine(l),
         indent |-> Indent(l),
         after_colon |-> IF IsKeyLine(l) THEN AfterColon(l) ELSE << >>,
         inline |-> IF IsKeyLine(l) THEN LegacyIn(AfterColon(l)) ELSE {},
         skipped |-> IsSkipped(l),
         member |-> LegacyIn(l)]]

\* the line at the Python index i
LineAt == LineFacts[lines[i + 1]]

GhaInit ==
    /\ pc = "scan"
    /\ ScanIdle /\ CallIdle /\ UncIdle /\ AbIdle /\ GitIdle /\ PypiIdle /\ CleanIdle
    /\ lines \in Texts
    /\ i = 0
    /\ block = None
    /\ legacy_versions = {}

\* outer loop: the line is no python-version key
GhaSkip ==
    /\ pc = "scan" /\ IsNone(block) /\ i < Len(lines)
    /\ ~LineAt.key
    /\ i' = i + 1
    /\ UNCHANGED <<pc, lines, block, legacy_versions, offGha>>

\* outer loop: a key with a value after the colon
GhaInline ==
    /\ pc = "scan" /\ IsNone(block) /\ i < Len(lines)
    /\ LineAt.key /\ LineAt.after_colon # << >>
    /\ legacy_versions' = legacy_versions \cup LineAt.inline
    /\ i' = i + 1
    /\ UNCHANGED <<pc, lines, block, offGha>>

\* outer loop: a key with nothing after the colon opens a block
GhaOpenBlock ==
    /\ pc = "scan" /\ IsNone(block) /\ i < Len(lines)
    /\ LineAt.key /\ LineAt.after_colon = << >>
    /\ block' = Some(LineAt.indent)
    /\ i' = i + 1
    /\ UNCHANGED <<pc, lines, legacy_versions, offGha>>

\* inner loop: a blank or comment line
GhaBlockSkip ==
    /\ pc = "scan" /\ ~IsNone(block) /\ i < Len(lines)
    /\ LineAt.skipped
    /\ i' = i + 1
    /\ UNCHANGED <<pc, lines, block, legacy_versions, offGha>>

GhaBlockEndConsumes ==
    /\ pc = "scan" /\ ~IsNone(block) /\ i < Len(lines)
    /\ ~LineAt.skipped
    /\ dedent(LineAt.indent, block[1])
    /\ block' = None
    /\ i' = i + 1
    /\ UNCHANGED <<pc, lines, legacy_versions, offGha>>

\* inner loop: break on a dedent, the line is left to the outer loop
GhaBlockEnd ==
    /\ pc = "scan" /\ ~IsNone(block) /\ i < Len(lines)
    /\ ~LineAt.skipped
    /\ dedent(LineAt.indent, block[1])
    /\ block' = None
    /\ UNCHANGED <<pc, lines, i, legacy_versions, offGha>>

GhaBlockMemberStuck ==
    /\ pc = "scan" /\ ~IsNone(block) /\ i < Len(lines)
    /\ ~LineAt.skipped
    /\ ~dedent(LineAt.indent, block[1])
    /\ legacy_versions' = legacy_versions \cup LineAt.member
    /\ UNCHANGED <<pc, lines, i, block, offGha>>

\* inner loop: a member of the block
GhaBlockMember ==
    /\ pc = "scan" /\ ~IsNone(block) /\ i < Len(lines)
    /\ ~LineAt.skipped
    /\ ~dedent(LineAt.indent, block[1])
    /\ legacy_versions' = legacy_versions \cup LineAt.member
    /\ i' = i + 1
    /\ UNCHANGED <<pc, lines, block, offGha>>

\* inner loop: the text ends inside the block
GhaBlockEOF ==
    /\ pc = "scan" /\ ~IsNone(block) /\ i >= Len(lines)
    /\ block' = None
    /\ UNCHANGED <<pc, lines, i, legacy_versions, offGha>>

\* return legacy_versions
GhaReturn ==
    /\ pc = "scan" /\ IsNone(block) /\ i >= Len(lines)
    /\ pc' = "returned"
    /\ UNCHANGED <<ghaVars, offGha>>

GhaNext ==
    \/ GhaSkip
    \/ GhaInline
    \/ GhaOpenBlock
    \/ GhaBlockSkip
    \/ GhaBlockEnd
    \/ GhaBlockMember
    \/ GhaBlockEOF
    \/ GhaReturn

SpecGha == GhaInit /\ [][GhaNext]_vars

\* the scanner is sequential code: it takes its next step whenever it has one
SpecGhaLive == SpecGha /\ WF_vars(GhaNext)

-----------------------------------------------------------------------------
(* py314_support.py: main and the thread pool.                             *)

\* client.user_packages(username): the package names of the (role, name)
\* pairs; a package appears once per role
PackagePairs == SeqsUpTo(EntryNames, MaxPackages)

\* --max-workers
WorkerCounts == {1, 2, 3}

\* the orders in which a set can be iterated
Orderings(S) ==
    {s \in [1..Cardinality(S) -> S] :
        \A j, k \in 1..Cardinality(S) : j # k => s[j] # s[k]}

\* sorted(names, key=str.lower)
sorted_by_lower(ns) ==
    LET rs == SortedByLowerName([k \in 1..Len(ns) |-> [name |-> ns[k]]])
    IN  [k \in 1..Len(rs) |-> rs[k].name]

\* list_user_projects: the set of names, sorted; the set is iterated in
\* an order of the interpreter's choosing
list_user_projects(pairs) ==
    {sorted_by_lower(o) : o \in Orderings({pairs[k] : k \in 1..Len(pairs)})}

ReleaseVersions == {<<"1", ".", "9">>, <<"1", ".", "1", "0">>}

\* SupportResult without its name, as check_project returns it
CheckResults ==
    {[supported |-> FALSE, version |-> None, reason |-> ""]}
        \cup {[supported |-> TRUE, version |-> Some(v), reason |-> why] :
                v \in ReleaseVersions, why \in {"classifier", "requires_python"}}

\* how a call of check_project ends: a SupportResult, or an exception of
\* requests.get passing through
TaskOutcomes ==
    {[raised |-> FALSE, result |-> Some(r)] : r \in CheckResults}
        \cup {[raised |-> TRUE, result |-> None]}

SupportResult(name, r) ==
    [name |-> name, supported |-> r.supported, version |-> r.version,
     reason |-> r.reason]

Running == {k \in 1..Len(futures) : futures[k].state = "running"}

\* the tasks that have ended
Finished == {k \in 1..Len(futures) : futures[k].state \in {"done", "yielded"}}

collectable_completed(futs, k, pos) == futs[k].state = "done"

\* ex.map yields the results in the order of the projects: the main thread
\* waits for the future at its position
collectable(futs, k, pos) == k = pos /\ futs[k].state = "done"

collect_overwrite(rs, res) == <<res>>

\* results.append(res)
collect(rs, res) == Append(rs, res)

PypiInit ==
    /\ tool = "py314_support"
    /\ pc = "list"
    /\ entries = << >>
    /\ idx = 0
    /\ verbose = FALSE
    /\ stdout = << >>
    /\ exit_code = None
    /\ facts = {}
    /\ projects = << >>
    /\ max_workers \in WorkerCounts
    /\ futures = << >>
    /\ support_results = << >>
    /\ versions = << >>
    /\ inspected = << >>
    /\ CallIdle /\ UncIdle /\ AbIdle /\ GitIdle /\ GhaIdle /\ CleanIdle

\* list_user_projects raises: main prints the error lines and returns
PypiListFails ==
    /\ tool = "py314_support" /\ pc = "list"
    /\ stdout' = Append(stdout, Msg("error_enumerate", << >>))
    /\ exit_code' = Some(0)
    /\ pc' = "done"
    /\ UNCHANGED <<offPool, poolVars, tool, entries, idx, verbose, facts>>

\* list_user_projects returns; with projects, ex.map submits one task per
\* project, in order
PypiList ==
    /\ tool = "py314_support" /\ pc = "list"
    /\ \E pairs \in PackagePairs :
       \E ps \in list_user_projects(pairs) :
        /\ projects' = ps
        /\ IF ps = << >>
           THEN /\ stdout' = Append(stdout, Msg("no_projects", << >>))
                /\ exit_code' = Some(0)
                /\ pc' = "done"
                /\ UNCHANGED <<futures, idx>>
           ELSE /\ futures' = [k \in 1..Len(ps) |->
                                 [state |-> "pending", raised |-> FALSE, result |-> None]]
                /\ idx' = 1
                /\ pc' = "map"
                /\ UNCHANGED <<stdout, exit_code>>
    /\ UNCHANGED <<offPool, max_workers, support_results, tool, entries, verbose, facts>>

\* a free worker thread takes the oldest task of the queue
WorkerStart ==
    /\ tool = "py314_support" /\ pc = "map"
    /\ Cardinality(Running) < max_workers
    /\ \E k \in 1..Len(futures) :
        /\ futures[k].state = "pending"
        /\ \A j \in 1..(k - 1) : futures[j].state # "pending"
        /\ futures' = [futures EXCEPT ![k].state = "running"]
    /\ UNCHANGED <<offPool, projects, max_workers, support_results, pc, scanVars>>

\* a worker thread's check_project call ends
WorkerFinish ==
    /\ tool = "py314_support" /\ pc = "map"
    /\ \E k \in Running :
       \E o \in TaskOutcomes :
        /\ futures' = [futures EXCEPT ![k] =
                          [state |-> "done", raised |-> o.raised, result |-> o.result]]
        /\ facts' = facts \cup {<<projects[k], "finished", Cardinality(Finished)>>}
    /\ UNCHANGED <<offPool, projects, max_workers, support_results, pc, tool,
                   entries, idx, verbose, stdout, exit_code>>

\* for res in ex.map(...): results.append(res)
MainCollect ==
    /\ tool = "py314_support" /\ pc = "map"
    /\ idx <= Len(projects)
    /\ \E k \in 1..Len(futures) :
        /\ collectable(futures, k, idx)
        /\ ~futures[k].raised
        /\ support_results' =
              collect(support_results, SupportResult(projects[k], futures[k].result[1]))
        /\ futures' = [futures EXCEPT ![k].state = "yielded"]
    /\ idx' = idx + 1
    /\ UNCHANGED <<offPool, projects, max_workers, pc, tool, entries, verbose,
                   stdout, exit_code, facts>>

\* the future main waits for holds an exception: ex.map raises it in main,
\* the tasks not yet started are cancelled, the interpreter exits with 1
MainRaise ==
    /\ tool = "py314_support" /\ pc = "map"
    /\ idx <= Len(projects)
    /\ futures[idx].state = "done" /\ futures[idx].raised
    /\ futures' = [k \in 1..Len(futures) |->
                     IF futures[k].state = "pending"
                     THEN [futures[k] EXCEPT !.state = "cancelled"]
                     ELSE futures[k]]
    /\ stdout' = Append(stdout, Msg("traceback", projects[idx]))
    /\ exit_code' = Some(1)
    /\ pc' = "crashed"
    /\ UNCHANGED <<offPool, projects, max_workers, support_results, tool, entries,
                   idx, verbose, facts>>

\* the lines of one section of the report
Section(rs, kind, none) ==
    IF rs = << >> THEN <<Msg(none, << >>)>>
    ELSE [k \in 1..Len(rs) |-> Msg(kind, rs[k].name)]

IsSupported(r) == r.supported

IsUnsupported(r) == ~r.supported

\* results.sort(key=lambda r: r.name.lower()) and the two sections
MainReport ==
    /\ tool = "py314_support" /\ pc = "map"
    /\ idx > Len(projects)
    /\ LET sorted == SortedByLowerName(support_results)
       IN  /\ support_results' = sorted
           /\ stdout' = stdout
                \o <<Msg("supported_header", << >>)>>
                \o Section(SelectSeq(sorted, IsSupported), "supported", "supported_none")
                \o <<Msg("unsupported_header", << >>)>>
                \o Section(SelectSeq(sorted, IsUnsupported), "unsupported",
                           "unsupported_none")
    /\ exit_code' = Some(0)
    /\ pc' = "done"
    /\ UNCHANGED <<offPool, projects, max_workers, futures, tool, entries, idx,
                   verbose, facts>>

PypiNext ==
    \/ PypiListFails
    \/ PypiList
    \/ WorkerStart
    \/ WorkerFinish
    \/ MainCollect
    \/ MainRaise
    \/ MainReport

SpecPypi == PypiInit /\ [][PypiNext]_vars

-----------------------------------------------------------------------------
(* py314_support.py: check_project and the release list.                   *)

\* Version(v) for a dotted run of numbers; anything else raises
\* InvalidVersion (None here)
ParseVersion(v) ==
    LET parts == Split(v, ".")
    IN  IF \A k \in 1..Len(parts) : AllDigits(parts[k])
        THEN Some([k \in 1..Len(parts) |-> DecVal(parts[k])])
        ELSE None

\* the sort key of _releases_sorted: Version(v), or Version("0!0") for a
\* version that does not parse
version_key(v) == IF IsNone(ParseVersion(v)) THEN <<0>> ELSE ParseVersion(v)[1]

\* Version < Version: release numbers compared with missing ones as zero
RECURSIVE VersionLess(_, _)
VersionLess(a, b) ==
    IF a = << >> /\ b = << >> THEN FALSE
    ELSE LET x == IF a = << >> THEN 0 ELSE Head(a)
             y == IF b = << >> THEN 0 ELSE Head(b)
         IN  IF x # y THEN x < y
             ELSE VersionLess(IF a = << >> THEN a ELSE Tail(a),
                              IF b = << >> THEN b ELSE Tail(b))

\* versions.sort(key=key, reverse=True): descending, equal keys keep their
\* order; one insertion of the stable sort
RECURSIVE InsertDescending(_, _)
InsertDescending(sorted, x) ==
    IF sorted = << >> THEN <<x>>
    ELSE IF VersionLess(version_key(Head(sorted)), version_key(x))
         THEN <<x>> \o sorted
         ELSE <<Head(sorted)>> \o InsertDescending(Tail(sorted), x)

RECURSIVE InsertAscending(_, _)
InsertAscending(sorted, x) ==
    IF sorted = << >> THEN <<x>>
    ELSE IF VersionLess(version_key(x), version_key(Head(sorted)))
         THEN <<x>> \o sorted
         ELSE <<Head(sorted)>> \o InsertAscending(Tail(sorted), x)

RECURSIVE SortVersions(_, _)
SortVersions(vs, descending) ==
    IF vs = << >> THEN << >>
    ELSE LET front == SortVersions(SubSeq(vs, 1, Len(vs) - 1), descending)
         IN  IF descending THEN InsertDescending(front, vs[Len(vs)])
             ELSE InsertAscending(front, vs[Len(vs)])

releases_sorted_ascending(project) ==
    IF project.status_code # 200 THEN << >>
    ELSE SortVersions(project.releases, FALSE)

\* _releases_sorted, given the answer of the project JSON request
releases_sorted(project) ==
    IF project.status_code # 200 THEN << >>
    ELSE SortVersions(project.releases, TRUE)

\* _release_supports, given the answer of the release JSON request
release_supports(release) ==
    IF release.status_code # 200 THEN [ok |-> FALSE, why |-> ""]
    ELSE IF release.classifier THEN [ok |-> TRUE, why |-> "classifier"]
    ELSE IF release.requires_python = "includes" THEN [ok |-> TRUE, why |-> "requires_python"]
    ELSE [ok |-> FALSE, why |-> ""]

\* the keys of data["releases"]
VersionPool ==
    { <<"1", ".", "9">>, <<"1", ".", "1", "0">>, <<"2">>, <<"0">>, <<"x">> }

ReleaseKeys ==
    {vs \in SeqsUpTo(VersionPool, MaxReleases) :
        \A j, k \in 1..Len(vs) : j # k => vs[j] # vs[k]}

\* the answers of GET /pypi/{name}/json
ProjectReplies ==
    {[status_code |-> 200, releases |-> vs] : vs \in ReleaseKeys}
        \cup {[status_code |-> 404, releases |-> << >>]}

\* the answers of GET /pypi/{name}/{version}/json: the status, whether the
\* classifiers hold PY_TAG, and requires_python: absent or blank, a
\* specifier that includes 3.14, one that excludes it, one SpecifierSet
\* rejects
ReleaseReplies ==
    {[status_code |-> 200, classifier |-> c, requires_python |-> rp] :
        c \in BOOLEAN, rp \in {"blank", "includes", "excludes", "invalid"}}
        \cup {[status_code |-> 404, classifier |-> FALSE, requires_python |-> "blank"]}

\* what one inspection can answer
InspectionAnswers == {release_supports(r) : r \in ReleaseReplies}

CheckInit ==
    /\ fn = "check_project"
    /\ pc = "fetch"
    /\ arg \in ProjectReplies
    /\ ret = None
    /\ versions = << >>
    /\ inspected = << >>
    /\ projects = << >>
    /\ max_workers = 0
    /\ futures = << >>
    /\ support_results = << >>
    /\ ScanIdle /\ UncIdle /\ AbIdle /\ GitIdle /\ GhaIdle /\ CleanIdle

\* versions = _releases_sorted(name)
CheckFetch ==
    /\ fn = "check_project" /\ pc = "fetch"
    /\ versions' = releases_sorted(arg)
    /\ pc' = "loop"
    /\ UNCHANGED <<offCheck, fn, arg, ret, inspected>>

\* one pass of the loop: _release_supports(name, v), return on a match
CheckInspect ==
    /\ fn = "check_project" /\ pc = "loop"
    /\ Len(inspected) < Len(versions)
    /\ \E a \in InspectionAnswers :
        LET v == versions[Len(inspected) + 1]
        IN  /\ inspected' = Append(inspected, [version |-> v, ok |-> a.ok])
            /\ IF a.ok
               THEN /\ ret' = Some([supported |-> TRUE, version |-> Some(v),
                                    reason |-> a.why])
                    /\ pc' = "done"
               ELSE UNCHANGED <<ret, pc>>
    /\ UNCHANGED <<offCheck, fn, arg, versions>>

\* the loop ends without a match
CheckExhausted ==
    /\ fn = "check_project" /\ pc = "loop"
    /\ Len(inspected) = Len(versions)
    /\ ret' = Some([supported |-> FALSE, version |-> None, reason |-> ""])
    /\ pc' = "done"
    /\ UNCHANGED <<offCheck, fn, arg, versions, inspected>>

\* requests.get raises (no connection, timeout): check_project lets it pass
CheckRaise ==
    /\ fn = "check_project"
    /\ \/ pc = "fetch"
       \/ pc = "loop" /\ Len(inspected) < Len(versions)
    /\ pc' = "raised"
    /\ UNCHANGED <<offCheck, fn, arg, ret, versions, inspected>>

CheckNext ==
    \/ CheckFetch
    \/ CheckInspect
    \/ CheckExhausted
    \/ CheckRaise

SpecCheck == CheckInit /\ [][CheckNext]_vars

-----------------------------------------------------------------------------
(* clean_up_actions.py                                                     *)

\* "[pre-commit.ci]"
PRECOMMIT_TITLE ==
    <<"[", "p", "r", "e", "-", "c", "o", "m", "m", "i", "t", ".", "c", "i", "]">>

CleanNames == {<<"a">>, <<"B">>, <<".", "g">>}

CleanEntries ==
    {[name |-> n, is_dir |-> d, dotgit |-> g] :
        n \in CleanNames, d \in BOOLEAN, g \in BOOLEAN} \
    {[name |-> n, is_dir |-> FALSE, dotgit |-> TRUE] : n \in CleanNames}

\* base.iterdir(): distinct names, in an order the file system chooses
CleanListings ==
    {l \in SeqsUpTo(CleanEntries, MaxEntries) :
        \A j, k \in 1..Len(l) : j # k => l[j].name # l[k].name}

\* sorted(base.iterdir()): paths compare by their text
RECURSIVE sorted_paths(_)
sorted_paths(ps) ==
    IF ps = << >> THEN << >>
    ELSE LET x == ps[Len(ps)]
             front == sorted_paths(SubSeq(ps, 1, Len(ps) - 1))
             after == {k \in 1..Len(front) : StrLess(x.name, front[k].name)}
             at == IF after = {} THEN Len(front) + 1
                   ELSE CHOOSE k \in after : \A m \in after : k <= m
         IN  SubSeq(front, 1, at - 1) \o <<x>> \o SubSeq(front, at, Len(front))

\* a record of the logger: level, message, and the directory the message names
LogRecord(level, kind, d) == <<level, kind, d>>

Logged(kind, d) == \E k \in 1..Len(log) : log[k][2] = kind /\ log[k][3] = d

\* what `git rev-parse --is-inside-work-tree` can do in a directory
CleanRevParse ==
    {[missing |-> TRUE, code |-> 0, out |-> << >>]}
        \cup {[missing |-> FALSE, code |-> r.code, out |-> r.out] : r \in RevParseResults}

\* is_git_repo of clean_up_actions.py: the .git entry, else rev-parse
clean_is_git_repo(e, r) ==
    IF e.dotgit THEN [repo |-> TRUE, logs |-> << >>]
    ELSE IF r.missing
         THEN [repo |-> FALSE, logs |-> <<LogRecord("ERROR", "git_not_found", << >>)>>]
    ELSE [repo |-> is_inside_work_tree(r), logs |-> << >>]

IsRepoOutcomes == {clean_is_git_repo(e, r) : e \in CleanEntries, r \in CleanRevParse}

RunTitles ==
    {[kind |-> "absent", s |-> << >>], [kind |-> "null", s |-> << >>],
     [kind |-> "str", s |-> PRECOMMIT_TITLE \o <<" ", "u">>],
     [kind |-> "str", s |-> <<"f", "i", "x">>]}

RunIds == {None, Some(7)}

\* one element of the JSON array `gh run list --json ...` prints
Runs == {[displayTitle |-> t, databaseId |-> n] : t \in RunTitles, n \in RunIds}

\* what a `gh` call can do: no executable, a nonzero exit, or its stdout
\* (text json.loads rejects, or a JSON array of runs)
GhListReplies ==
    {[missing |-> TRUE, code |-> 0, out |-> [text |-> "blank", data |-> << >>]]}
        \cup {[missing |-> FALSE, code |-> c, out |-> [text |-> "malformed", data |-> << >>]] :
                c \in {0, 1}}
        \cup {[missing |-> FALSE, code |-> 0, out |-> [text |-> "json", data |-> rs]] :
                rs \in SeqsUpTo(Runs, MaxRuns)}

\* what `gh run delete` can do once the list command has found gh
GhDeleteReplies ==
    {[missing |-> FALSE, code |-> c, out |-> [text |-> "blank", data |-> << >>]] :
        c \in {0, 1}}

\* run_gh: stdout, or None after an error record
run_gh(d, reply) ==
    IF reply.missing
    THEN [out |-> None, logs |-> <<LogRecord("ERROR", "gh_not_found", << >>)>>]
    ELSE IF reply.code # 0
         THEN [out |-> None, logs |-> <<LogRecord("ERROR", "gh_failed", d)>>]
    ELSE [out |-> Some(reply.out), logs |-> << >>]

\* run.get("displayTitle") or ""
display_title(run) == IF run.displayTitle.kind = "str" THEN run.displayTitle.s ELSE << >>

IsPrecommitRun(run) == StartsWith(display_title(run), PRECOMMIT_TITLE)

\* list_precommit_runs
list_precommit_runs(d, reply) ==
    LET g == run_gh(d, reply)
    IN  IF IsNone(g.out) THEN [runs |-> << >>, logs |-> g.logs]
        ELSE IF g.out[1].text = "malformed"
             THEN [runs |-> << >>, logs |-> <<LogRecord("ERROR", "json_parse_failed", d)>>]
        ELSE [runs |-> SelectSeq(g.out[1].data, IsPrecommitRun), logs |-> << >>]

delete_run_always(d, dry, run, reply) ==
    LET g == run_gh(d, reply)
    IN  [logs |-> g.logs \o (IF IsNone(g.out) THEN << >>
                             ELSE <<LogRecord("INFO", "deleted", d)>>),
         deleted |-> {run}]

\* delete_run
delete_run(d, dry, run, reply) ==
    IF dry THEN [logs |-> <<LogRecord("INFO", "dry_run", d)>>, deleted |-> {}]
    ELSE LET g == run_gh(d, reply)
         IN  [logs |-> g.logs \o (IF IsNone(g.out) THEN << >>
                                  ELSE <<LogRecord("INFO", "deleted", d)>>),
              deleted |-> {run}]

\* the loop of process_repo over the runs found; replies[k] is what gh does
\* for the k-th run's delete command
RECURSIVE delete_runs(_, _, _, _)
delete_runs(d, dry, runs, replies) ==
    IF runs = << >> THEN [logs |-> << >>, deleted |-> {}]
    ELSE LET run == Head(runs)
             one == IF IsNone(run.databaseId)
                    THEN [logs |-> <<LogRecord("WARNING", "missing_id", d)>>,
                          deleted |-> {}]
                    ELSE delete_run(d, dry, run, Head(replies))
             rest == delete_runs(d, dry, Tail(runs), Tail(replies))
         IN  [logs |-> <<LogRecord("INFO", "run", d)>> \o one.logs \o rest.logs,
              deleted |-> one.deleted \cup rest.deleted]

\* what gh answered to the list command, for the history
ListClass(reply) ==
    IF reply.missing THEN "gh_not_found"
    ELSE IF reply.code # 0 THEN "failed"
    ELSE IF reply.out.text = "malformed" THEN "malformed"
    ELSE "listed"

\* process_repo
process_repo(d, dry, reply, replies) ==
    LET found == list_precommit_runs(d, reply)
        each == delete_runs(d, dry, found.runs, replies)
    IN  [d |-> d, dry |-> dry, class |-> ListClass(reply),
         logs |-> <<LogRecord("INFO", "scanning", d)>> \o found.logs
                    \o (IF found.runs = << >>
                        THEN <<LogRecord("INFO", "no_runs", d)>>
                        ELSE <<LogRecord("INFO", "found", d)>> \o each.logs),
         deleted |-> each.deleted]

\* the distinct courses process_repo can take
ProcessOutcomes ==
    {process_repo(d, dry, reply, replies) :
        d \in CleanNames, dry \in BOOLEAN, reply \in GhListReplies,
        replies \in [1..MaxRuns -> GhDeleteReplies]}

CleanInit ==
    /\ tool = "clean_up_actions"
    /\ pc = "scan"
    /\ entries \in CleanListings
    /\ idx = 1
    /\ verbose = FALSE
    /\ stdout = << >>
    /\ exit_code = None
    /\ facts = {}
    /\ DRY_RUN \in BOOLEAN
    /\ log = <<LogRecord("INFO", "starting", << >>)>>
    /\ CallIdle /\ UncIdle /\ AbIdle /\ GitIdle /\ GhaIdle /\ PypiIdle

CleanAt ==
    /\ tool = "clean_up_actions"
    /\ pc = "scan"
    /\ idx <= Len(sorted_paths(entries))

CleanEntry == sorted_paths(entries)[idx]

IsHidden(e) == StartsWith(e.name, <<".">>)

\* how is_git_repo came to accept the directory, for the history
RepoClass(e) == IF e.dotgit THEN "dotgit" ELSE "work_tree"

\* main's loop: an entry that is no directory
CleanNotDir ==
    /\ CleanAt
    /\ ~CleanEntry.is_dir
    /\ idx' = idx + 1
    /\ UNCHANGED <<offClean, cleanVars, pc, tool, entries, verbose, stdout,
                   exit_code, facts>>

\* main's loop: a directory whose name starts with "."
CleanHidden ==
    /\ CleanAt
    /\ CleanEntry.is_dir
    /\ IsHidden(CleanEntry)
    /\ idx' = idx + 1
    /\ UNCHANGED <<offClean, cleanVars, pc, tool, entries, verbose, stdout,
                   exit_code, facts>>

\* main's loop: a directory is_git_repo rejects
CleanNonGit ==
    /\ CleanAt
    /\ CleanEntry.is_dir
    /\ ~IsHidden(CleanEntry)
    /\ \E r \in CleanRevParse :
        LET is == clean_is_git_repo(CleanEntry, r)
        IN  /\ ~is.repo
            /\ log' = log \o is.logs
    /\ facts' = facts \cup {<<CleanEntry.name, "repo", "no">>}
    /\ idx' = idx + 1
    /\ UNCHANGED <<offClean, DRY_RUN, pc, tool, entries, verbose, stdout, exit_code>>

\* main's loop: process_repo on a git repository
CleanProcess ==
    /\ CleanAt
    /\ CleanEntry.is_dir
    /\ ~IsHidden(CleanEntry)
    /\ \E r \in CleanRevParse :
        /\ clean_is_git_repo(CleanEntry, r).repo
        /\ \E o \in {p \in ProcessOutcomes :
                        p.d = CleanEntry.name /\ p.dry = DRY_RUN} :
            /\ log' = log \o o.logs
            /\ facts' = facts \cup {<<o.d, "repo", RepoClass(CleanEntry)>>,
                                    <<o.d, "runs", o.class>>}
                              \cup {<<o.d, "delete", run>> : run \in o.deleted}
    /\ idx' = idx + 1
    /\ UNCHANGED <<offClean, DRY_RUN, pc, tool, entries, verbose, stdout, exit_code>>

\* the loop is over: main logs its last line and returns
CleanFinish ==
    /\ tool = "clean_up_actions"
    /\ pc = "scan"
    /\ idx > Len(sorted_paths(entries))
    /\ log' = Append(log, LogRecord("INFO", "done", << >>))
    /\ exit_code' = Some(0)
    /\ pc' = "done"
    /\ UNCHANGED <<offClean, DRY_RUN, tool, entries, idx, verbose, stdout, facts>>

CleanNext ==
    \/ CleanNotDir
    \/ CleanHidden
    \/ CleanNonGit
    \/ CleanProcess
    \/ CleanFinish

SpecCleanup == CleanInit /\ [][CleanNext]_vars

-----------------------------------------------------------------------------
(* find_the_archives.py: the origin URL read as (owner, repo).             *)

GITHUB_COM == <<"g", "i", "t", "h", "u", "b", ".", "c", "o", "m">>

GIT_AT == <<"g", "i", "t", "@">>

DOT_GIT == <<".", "g", "i", "t">>

HTTPS == <<"h", "t", "t", "p", "s", ":", "/", "/">>

HTTP == <<"h", "t", "t", "p", ":", "/", "/">>

SSH == <<"s", "s", "h", ":", "/", "/">>

GIT == <<"g", "i", "t", ":", "/", "/">>

EndsWith(s, p) == Len(s) >= Len(p) /\ SubSeq(s, Len(s) - Len(p) + 1, Len(s)) = p

\* after.lstrip(":")
RECURSIVE LStripColons(_)
LStripColons(s) ==
    IF s # << >> /\ Head(s) = ":" THEN LStripColons(Tail(s)) ELSE s

\* the loop over ("https://", "http://", "ssh://", "git://"): the first
\* prefix the URL starts with is cut off
strip_protocol(u) ==
    IF StartsWith(u, HTTPS) THEN SubSeq(u, Len(HTTPS) + 1, Len(u))
    ELSE IF StartsWith(u, HTTP) THEN SubSeq(u, Len(HTTP) + 1, Len(u))
    ELSE IF StartsWith(u, SSH) THEN SubSeq(u, Len(SSH) + 1, Len(u))
    ELSE IF StartsWith(u, GIT) THEN SubSeq(u, Len(GIT) + 1, Len(u))
    ELSE u

\* parts.index("github.com"), counted from 1; 0 for ValueError
IndexOfHost(parts) ==
    LET S == {k \in 1..Len(parts) : parts[k] = GITHUB_COM}
    IN  IF S = {} THEN 0 ELSE CHOOSE k \in S : \A m \in S : k <= m

\* parse_github_remote: None, or Some(<<owner, repo>>)
parse_github_remote(remote_url) ==
    LET u == Strip(remote_url)
        normalized ==
            IF Contains(u, <<":">>) /\ StartsWith(u, GIT_AT \o GITHUB_COM)
            THEN GITHUB_COM \o <<"/">>
                    \o LStripColons(SubSeq(u, Len(GIT_AT \o GITHUB_COM) + 1, Len(u)))
            ELSE strip_protocol(u)
        parts == Split(normalized, "/")
        at == IndexOfHost(parts)
    IN  IF ~Contains(u, GITHUB_COM) THEN None
        ELSE IF at = 0 THEN None
        ELSE IF Len(parts) < at + 2 THEN None
        ELSE LET owner == parts[at + 1]
                 repo == parts[at + 2]
             IN  Some(<<owner, IF EndsWith(repo, DOT_GIT)
                               THEN SubSeq(repo, 1, Len(repo) - 4) ELSE repo>>)

RemoteSchemes == {<< >>, GIT_AT, HTTPS, HTTP, SSH, SSH \o GIT_AT, GIT}

RemoteHosts == {GITHUB_COM, <<"g", "i", "t", "l", "a", "b", ".", "c", "o", "m">>}

RemotePaths ==
    { << >>, <<"o">>, <<"o", "/", "r">>, <<"o", "/", "r">> \o DOT_GIT,
      <<"o", "/">> \o DOT_GIT, <<"o", "/", "r", "/", "x">> }

\* stdout of `git remote get-url origin`
RemoteUrls ==
    { s \o h \o c \o p \o e :
        s \in RemoteSchemes, h \in RemoteHosts, c \in {<<":">>, <<"/">>},
        p \in RemotePaths, e \in {<< >>, <<"\n">>} }

-----------------------------------------------------------------------------
(* find_archives.py and not_cloned.py: the repositories not cloned.        *)

RepoNames == {<<"a">>, <<"b">>}

\* updated_at as an instant (the timestamps carry their UTC offset)
Instants == {1, 2}

\* a RepoInfo / Repo built from gh's answer
FetchedRepos ==
    {[name |-> n, fork |-> f, archived |-> a, updated_at |-> t] :
        n \in RepoNames, f \in BOOLEAN, a \in BOOLEAN, t \in Instants}

\* root.iterdir(): for each name no entry, a file, or a directory
LocalEntries ==
    {es \in SUBSET {[name |-> n, is_dir |-> d] : n \in RepoNames, d \in BOOLEAN} :
        \A x, y \in es : x.name = y.name => x = y}

\* find_local_dirs / get_local_repo_names
find_local_dirs(es) == {e.name : e \in {x \in es : x.is_dir}}

\* list.sort(key=lambda r: r.updated_at, reverse=True): stable
RECURSIVE SortByUpdatedDescending(_)
SortByUpdatedDescending(rs) ==
    IF rs = << >> THEN << >>
    ELSE LET x == rs[Len(rs)]
             front == SortByUpdatedDescending(SubSeq(rs, 1, Len(rs) - 1))
             after == {k \in 1..Len(front) : front[k].updated_at < x.updated_at}
             at == IF after = {} THEN Len(front) + 1
                   ELSE CHOOSE k \in after : \A m \in after : k <= m
         IN  SubSeq(front, 1, at - 1) \o <<x>> \o SubSeq(front, at, Len(front))

\* filter_missing_repos of not_cloned.py
RECURSIVE filter_missing_repos(_, _)
filter_missing_repos(repos, local_names) ==
    IF repos = << >> THEN << >>
    ELSE LET repo == Head(repos)
             rest == filter_missing_repos(Tail(repos), local_names)
         IN  IF repo.fork THEN rest
             ELSE IF repo.archived THEN rest
             ELSE IF repo.name \in local_names THEN rest
             ELSE <<repo>> \o rest

\* not_cloned.py main: filter_missing_repos, then missing.sort
not_cloned_missing(repos, local_names) ==
    SortByUpdatedDescending(filter_missing_repos(repos, local_names))

compute_uncloned_repos_unsorted(repos, local_dir_names) ==
    LET Keep(r) == ~r.fork /\ ~r.archived /\ r.name \notin local_dir_names
    IN  SelectSeq(repos, Keep)

\* compute_uncloned_repos of find_archives.py
compute_uncloned_repos(repos, local_dir_names) ==
    LET Keep(r) == ~r.fork /\ ~r.archived /\ r.name \notin local_dir_names
    IN  SortByUpdatedDescending(SelectSeq(repos, Keep))

NotClonedArgs ==
    {[repos |-> rs, entries |-> es] :
        rs \in SeqsUpTo(FetchedRepos, MaxRepos), es \in LocalEntries}

-----------------------------------------------------------------------------
(* Calls of single functions: the argument is drawn in the initial state,  *)
(* one step applies the function.                                          *)

PureInit ==
    /\ pc = "call"
    /\ ScanIdle /\ UncIdle /\ AbIdle /\ GitIdle /\ GhaIdle /\ PypiIdle /\ CleanIdle
    /\ \/ /\ fn = "get_unpushed_commit_count"
          /\ arg \in RunCmdResults
          /\ ret = None
       \/ /\ fn = "is_legacy_python_version"
          /\ arg \in VersionTokens
          /\ ret = FALSE
       \/ /\ fn = "classify_clone_type"
          /\ arg \in OriginResults
          /\ ret = [url |-> None, ctype |-> "none"]
       \/ /\ fn = "is_fork_of_other_user"
          /\ arg \in {[repo_info |-> info, username |-> u] : info \in RepoInfos, u \in Usernames}
          /\ ret = FALSE
       \/ /\ fn = "parse_github_remote"
          /\ arg \in RemoteUrls
          /\ ret = None
       \/ /\ fn \in {"compute_uncloned_repos", "not_cloned_missing"}
          /\ arg \in NotClonedArgs
          /\ ret = None

CallUnpushed ==
    /\ pc = "call"
    /\ fn = "get_unpushed_commit_count"
    /\ ret' = get_unpushed_commit_count(arg)
    /\ HAD_ERRORS' = (HAD_ERRORS \/ unpushed_reports_error(arg))
    /\ pc' = "done"
    /\ UNCHANGED <<fn, arg, scanVars, offCall, gitLists>>

CallIsLegacy ==
    /\ pc = "call"
    /\ fn = "is_legacy_python_version"
    /\ ret' = is_legacy_python_version(arg)
    /\ pc' = "done"
    /\ UNCHANGED <<fn, arg, scanVars, offCall, gitVars>>

\* how_cloned.main's loop body: url = get_origin_url(repo);
\* ctype = classify_clone_type(url); (repo, url) is filed under ctype
CallClassify ==
    /\ pc = "call"
    /\ fn = "classify_clone_type"
    /\ LET url == get_origin_url(arg)
       IN  ret' = [url |-> url, ctype |-> classify_clone_type(url)]
    /\ pc' = "done"
    /\ UNCHANGED <<fn, arg, scanVars, offCall, gitVars>>

CallIsFork ==
    /\ pc = "call"
    /\ fn = "is_fork_of_other_user"
    /\ ret' = is_fork_of_other_user(arg.repo_info, arg.username)
    /\ pc' = "done"
    /\ UNCHANGED <<fn, arg, scanVars, offCall, gitVars>>

CallParseRemote ==
    /\ pc = "call"
    /\ fn = "parse_github_remote"
    /\ ret' = parse_github_remote(arg)
    /\ pc' = "done"
    /\ UNCHANGED <<fn, arg, scanVars, offCall, gitVars>>

\* find_archives.py main: compute_uncloned_repos(repos, find_local_dirs(root))
CallComputeUncloned ==
    /\ pc = "call"
    /\ fn = "compute_uncloned_repos"
    /\ ret' = compute_uncloned_repos(arg.repos, find_local_dirs(arg.entries))
    /\ pc' = "done"
    /\ UNCHANGED <<fn, arg, scanVars, offCall, gitVars>>

\* not_cloned.py main: the missing list after its sort
CallNotClonedMissing ==
    /\ pc = "call"
    /\ fn = "not_cloned_missing"
    /\ ret' = not_cloned_missing(arg.repos, find_local_dirs(arg.entries))
    /\ pc' = "done"
    /\ UNCHANGED <<fn, arg, scanVars, offCall, gitVars>>

PureNext ==
    \/ CallUnpushed
    \/ CallIsLegacy
    \/ CallClassify
    \/ CallIsFork
    \/ CallParseRemote
    \/ CallComputeUncloned
    \/ CallNotClonedMissing

SpecPure == PureInit /\ [][PureNext]_vars

-----------------------------------------------------------------------------
(* C1 *)

\* C1: get_unpushed_commit_count returns None, never 0, whenever the
\* rev-list command exits nonzero or prints non-numeric output, and it
\* returns 0 only when the command exits 0 and its output is the number 0.
C1_IndeterminateNeverZero ==
    (fn = "get_unpushed_commit_count" /\ pc = "done") =>
        /\ (arg.code # 0 \/ ~NumericOutput(arg.out)) => ret = None
        /\ ret = Some(0) => (arg.code = 0 /\ ZeroOutput(arg.out))
        /\ (arg.code = 0 /\ ZeroOutput(arg.out)) => ret = Some(0)

C1_Witness ==
    /\ fn = "get_unpushed_commit_count" /\ pc = "done"
    /\ arg.code = 0 /\ arg.out = <<"x", "\n">>
    /\ ret = None

-----------------------------------------------------------------------------
(* C4 *)

\* the label the claim gives to what `git config --get` answered
ExpectedCloneType(r) ==
    LET u == Strip(r.out)
    IN  IF r.code # 0 \/ u = << >> THEN "none"
        ELSE IF PrefixIgnoringCase(u, <<"g", "i", "t", "@">>)
                \/ PrefixIgnoringCase(u, <<"s", "s", "h", ":", "/", "/">>)
        THEN "ssh"
        ELSE IF PrefixIgnoringCase(u, <<"h", "t", "t", "p", ":", "/", "/">>)
                \/ PrefixIgnoringCase(u, <<"h", "t", "t", "p", "s", ":", "/", "/">>)
        THEN "https"
        ELSE "other"

\* C4: clone-URL classification is total and single-valued: a non-empty
\* URL is ssh (prefix git@ or ssh://, any letter case), https (prefix
\* http:// or https://) or else other; an empty or missing URL is none;
\* the URL filed with the label is the URL that was read, unchanged.
C4_CloneTypeTotal ==
    (fn = "classify_clone_type" /\ pc = "done") =>
        /\ ret.ctype \in {"ssh", "https", "other", "none"}
        /\ ret.ctype = ExpectedCloneType(arg)
        /\ ret.ctype = "none" <=> IsNone(ret.url)
        /\ ~IsNone(ret.url) => (arg.code = 0 /\ ret.url[1] = Strip(arg.out))

C4_Witness ==
    /\ fn = "classify_clone_type" /\ pc = "done"
    /\ arg.code = 0
    /\ arg.out = <<"G", "i", "t", "@", "h", "/", "r", "\n">>
    /\ ret.ctype = "ssh"

-----------------------------------------------------------------------------
(* C5 *)

\* the owner object carries exactly the login u
HasLogin(owner, u) ==
    /\ ~IsNone(owner)
    /\ ~IsNone(owner[1].login)
    /\ owner[1].login[1] = u

ParentOwner(info) ==
    IF IsNone(info.parent) THEN None ELSE info.parent[1].owner

\* C5: is_fork_of_other_user is true exactly when the repo info reports
\* isFork, the owner login is the username, and the parent's owner login
\* is not the username; a fork of alice's whose parent is alice's is not
\* reported, one whose parent is bob's is.
C5_ForkOfOtherUser ==
    (fn = "is_fork_of_other_user" /\ pc = "done") =>
        ret = ( /\ arg.repo_info.isFork = Some(TRUE)
                /\ HasLogin(arg.repo_info.owner, arg.username)
                /\ ~HasLogin(ParentOwner(arg.repo_info), arg.username) )

C5_Witness ==
    /\ fn = "is_fork_of_other_user" /\ pc = "done"
    /\ arg.username = "alice"
    /\ arg.repo_info.isFork = Some(TRUE)
    /\ HasLogin(arg.repo_info.owner, "alice")
    /\ HasLogin(ParentOwner(arg.repo_info), "alice")
    /\ ret = FALSE

-----------------------------------------------------------------------------
(* C7 *)

\* the token has two or three dot-separated decimal components and its
\* (major, minor, patch) is below (3, 14, 0), compared number by number
BelowThreshold(tok) ==
    LET parts == Split(tok, ".")
    IN  /\ Len(parts) \in {2, 3}
        /\ \A k \in 1..Len(parts) :
              Len(parts[k]) > 0 /\ \A j \in 1..Len(parts[k]) : parts[k][j] \in Digits
        /\ \/ DecVal(parts[1]) < 3
           \/ DecVal(parts[1]) = 3 /\ DecVal(parts[2]) < 14

\* C7: a version token is legacy exactly when it has two or three numeric
\* components and its tuple, patch padded with 0, is numerically below
\* (3, 14, 0): 3.9 and 3.13.1 are legacy, 3.14, 3.14.0 and 3.15 are not,
\* and a token that is no numeric version never is.
C7_LegacyIffBelowThreshold ==
    (fn = "is_legacy_python_version" /\ pc = "done") =>
        /\ ret = BelowThreshold(arg)
        /\ arg \in {<<"3", ".", "9">>, <<"3", ".", "1", "3", ".", "1">>} => ret
        /\ arg \in {<<"3", ".", "1", "4">>, <<"3", ".", "1", "4", ".", "0">>,
                    <<"3", ".", "1", "5">>} => ~ret

C7_Witness ==
    /\ fn = "is_legacy_python_version" /\ pc = "done"
    /\ arg = <<"3", ".", "1", "3", ".", "1">>
    /\ ret = TRUE

-----------------------------------------------------------------------------
(* C2 *)

-----------------------------------------------------------------------------
(* C3 *)

\* C3: a repository whose `git status --porcelain` exited nonzero is not
\* printed as clean and does not count toward "all repositories are clean".
C3_FailedStatusNeverClean ==
    tool = "uncommited" =>
        \A n \in EntryNames :
            <<n, "status", "failed">> \in facts =>
                /\ ~Printed("is_clean", n)
                /\ ~PrintedKind("all_clean")

-----------------------------------------------------------------------------
(* C9 *)

\* C9: when main returns, the exit status is 1 if a scanned repository has
\* local changes and 0 otherwise, with and without --verbose.
C9_ExitStatus ==
    (tool = "uncommited" /\ pc = "done") =>
        exit_code = Some(IF \E n \in EntryNames : <<n, "status", "changes">> \in facts
                         THEN 1 ELSE 0)

C9_Witness ==
    /\ tool = "uncommited" /\ pc = "done"
    /\ verbose
    /\ <<<<"a">>, "status", "changes">> \in facts
    /\ <<<<"b">>, "status", "no_changes">> \in facts
    /\ exit_code = Some(1)

-----------------------------------------------------------------------------
(* C10 *)

\* C10: a run that ends with no findings has printed a positive
\* confirmation of the empty result and exits 0, whatever the options.
C10_EmptyRunConfirmed ==
    (tool = "uncommited" /\ pc = "done" /\ dirty = << >>) =>
        /\ exit_code = Some(0)
        /\ PrintedKind("all_clean") \/ PrintedKind("is_clean")

-----------------------------------------------------------------------------
(* C8 *)

\* C8: cmd_failing reports a repository as failing exactly when its most
\* recent run's conclusion is "failure", letter case ignored; any other
\* conclusion, an empty run list, empty output or a failed call is not.
C8_FailingIffFailure ==
    (tool = "git_it" /\ command = "failing") =>
        /\ \A n \in EntryNames :
              Printed("failing", n) <=> <<n, "runs", "failure">> \in facts
        /\ any_reported <=> PrintedKind("failing")
        /\ pc = "done" => (PrintedKind("no_failing") <=> ~PrintedKind("failing"))

C8_Witness ==
    /\ tool = "git_it" /\ command = "failing" /\ pc = "done"
    /\ <<<<"a">>, "runs", "failure">> \in facts
    /\ <<<<"B">>, "runs", "no_runs">> \in facts
    /\ Printed("failing", <<"a">>)
    /\ ~Printed("failing", <<"B">>)

-----------------------------------------------------------------------------
(* C6 *)

\* a key line with nothing after its colon
IsBlockKey(k) == IsKeyLine(lines[k]) /\ AfterColon(lines[k]) = << >>

\* the first line after key k that is neither blank nor a comment and is
\* indented at or below the key; one past the last line when there is none
BlockStop(k) ==
    LET S == {j \in (k + 1)..Len(lines) :
                 ~IsSkipped(lines[j]) /\ Indent(lines[j]) <= Indent(lines[k])}
    IN  IF S = {} THEN Len(lines) + 1
        ELSE CHOOSE j \in S : \A m \in S : j <= m

\* line j lies in no block of an earlier key, so it is read as a key itself
RECURSIVE ReadAsKey(_)
ReadAsKey(j) ==
    \A k \in 1..(j - 1) : ~(IsBlockKey(k) /\ ReadAsKey(k) /\ j < BlockStop(k))

InlineVersions ==
    UNION {LegacyIn(AfterColon(lines[k])) :
              k \in {j \in 1..Len(lines) :
                        IsKeyLine(lines[j]) /\ ~IsBlockKey(j) /\ ReadAsKey(j)}}

BlockVersions ==
    UNION {LegacyIn(lines[m[2]]) :
              m \in {x \in (1..Len(lines)) \X (1..Len(lines)) :
                        /\ IsBlockKey(x[1]) /\ ReadAsKey(x[1])
                        /\ x[1] < x[2] /\ x[2] < BlockStop(x[1])
                        /\ ~IsSkipped(lines[x[2]])}}

\* C6: the scanner returns the legacy versions found after the colon of
\* every inline python-version key, and those of every non-blank,
\* non-comment line between a value-less key and the first such line
\* indented at or below it.  A block key followed by - "3.10" and
\* - "3.13.1" yields both; an inline "3.14" yields none.
C6_InlineAndBlockModes ==
    pc = "returned" =>
        /\ legacy_versions = InlineVersions \cup BlockVersions
        /\ lines = <<BlockKey, Member310, Member3131>> =>
              legacy_versions = {<<"3", ".", "1", "0">>,
                                 <<"3", ".", "1", "3", ".", "1">>}
        /\ lines = <<Inline314>> => legacy_versions = {}

C6_Witness ==
    /\ pc = "returned"
    /\ lines = <<BlockKey, Member310, Member3131, SiblingLine>>
    /\ legacy_versions = {<<"3", ".", "1", "0">>,
                          <<"3", ".", "1", "3", ".", "1">>}

-----------------------------------------------------------------------------
(* C11 *)

\* C11: whatever order the file system enumerates the children in, the
\* findings are printed in case-insensitive name order, so the printed
\* order is fixed by the set of children alone.
C11_FindingsInNameOrder ==
    (tool = "abandoned_repo" /\ pc = "done") =>
        \A j, k \in 1..Len(results) :
            j < k => ~StrLess(Lower(results[k].path), Lower(results[j].path))

-----------------------------------------------------------------------------
(* C12 *)

\* C12: a failure while collecting a fact for one directory never aborts
\* the scan: when the run has ended, the status of every repository among
\* the children has been collected.
C12_ScanNeverAborted ==
    (tool = "uncommited" /\ pc # "scan") =>
        \A k \in 1..Len(entries) :
            unc_is_repo(entries[k]) =>
                \E c \in {"failed", "changes", "no_changes"} :
                    <<entries[k].name, "status", c>> \in facts

-----------------------------------------------------------------------------
(* C13 *)

\* the report_error calls made for directory d and command c with exit 127
MissingReports(d, c) == {k \in 1..Len(stderr) : stderr[k] = <<d, c, 127>>}

\* C13: a command whose executable is missing is reported by report_error
\* one time, not more, for its (repository, command) pair.
C13_MissingReportedOnce ==
    tool = "git_it" =>
        \A d \in EntryNames :
            \A c \in {"status", "rev-list", "fetch", "pull", "push", "gh"} :
                Cardinality(MissingReports(d, c)) <= 1

-----------------------------------------------------------------------------
(* C14 *)

\* report_error was called during the run
ErrorReported == \E k \in 1..Len(stderr) : stderr[k][1] # << >>

CompletedWithErrors ==
    \E k \in 1..Len(stderr) : stderr[k] = <<<< >>, "completed_with_errors", 1>>

\* what main has done when it ends
EndsAsFailed ==
    /\ exit_code = Some(1)
    /\ CompletedWithErrors
    /\ ~PrintedKind("completed_successfully")

EndsAsSucceeded ==
    /\ exit_code = Some(0)
    /\ PrintedKind("completed_successfully")
    /\ ~CompletedWithErrors

\* C14: HAD_ERRORS only goes from false to true, it is true exactly when
\* report_error has been called, and main ends with exit status 1 and the
\* 'Completed with errors' line if report_error was called, with
\* 'Completed successfully' and exit status 0 if not.
C14_ErrorFlagAndExit ==
    /\ [][HAD_ERRORS => HAD_ERRORS']_vars
    /\ [](tool = "git_it" =>
            /\ HAD_ERRORS <=> ErrorReported
            /\ pc = "done" =>
                  IF ErrorReported THEN EndsAsFailed ELSE EndsAsSucceeded)

C14_Witness ==
    /\ tool = "git_it" /\ pc = "done" /\ command = "failing"
    /\ Printed("failing", <<"a">>)
    /\ \E k \in 1..Len(stderr) : stderr[k][1] = <<"B">>
    /\ exit_code = Some(1)

-----------------------------------------------------------------------------
(* C15 *)

\* some command of the run could not be started: run_cmd reported code 127
ExecutableMissing == \E k \in 1..Len(stderr) : stderr[k][3] = 127

\* C15 as claimed: when a required external executable is missing, the
\* process exit status is 127.
C15_MissingExits127 ==
    (tool = "git_it" /\ pc = "done" /\ ExecutableMissing) =>
        exit_code = Some(127)

\* C15 as amended: when git or gh is missing, git_it reports the command
\* with code 127 through report_error and the process exit status is 1.
C15_MissingExits1 ==
    tool = "git_it" =>
        /\ exit_code # Some(127)
        /\ (pc = "done" /\ ExecutableMissing) =>
              /\ exit_code = Some(1)
              /\ CompletedWithErrors

C15_Witness ==
    /\ tool = "git_it" /\ pc = "done" /\ command = "pull"
    /\ \E k \in 1..Len(stderr) : stderr[k] = <<<<"a">>, "fetch", 127>>
    /\ exit_code = Some(1)

-----------------------------------------------------------------------------
(* C16 *)

\* the names printed in the lines of one kind, in order
NamesPrinted(kind) ==
    LET OfKind(m) == m[1] = kind
        ms == SelectSeq(stdout, OfKind)
    IN  [k \in 1..Len(ms) |-> ms[k][2]]

\* the projects whose check answered supported = supp, in the order of the
\* project list
ProjectsAnswering(supp) ==
    LET Answered(k) == futures[k].result # None
                          /\ futures[k].result[1].supported = supp
        ks == SelectSeq([k \in 1..Len(projects) |-> k], Answered)
    IN  [j \in 1..Len(ks) |-> projects[ks[j]]]

InNameOrder(ns) ==
    \A j, k \in 1..Len(ns) : j < k => ~StrLess(Lower(ns[k]), Lower(ns[j]))

\* C16: the printed report lists the projects in case-insensitive name
\* order, fixed by the project list and each project's answer; the order
\* in which the worker threads ran and finished does not enter it.
C16_ReportOrderFixed ==
    (tool = "py314_support" /\ pc = "done" /\ projects # << >>) =>
        /\ NamesPrinted("supported") = ProjectsAnswering(TRUE)
        /\ NamesPrinted("unsupported") = ProjectsAnswering(FALSE)
        /\ InNameOrder(NamesPrinted("supported"))
        /\ InNameOrder(NamesPrinted("unsupported"))

\* the third project's check finished first, the first project's last
C16_Witness ==
    /\ tool = "py314_support" /\ pc = "done"
    /\ Len(projects) = 3
    /\ <<projects[3], "finished", 0>> \in facts
    /\ <<projects[1], "finished", 2>> \in facts
    /\ Len(NamesPrinted("supported")) = 2
    /\ Len(NamesPrinted("unsupported")) = 1

-----------------------------------------------------------------------------
(* C18 *)

\* the SupportResult of the k-th project's task
ResultOf(k) == SupportResult(projects[k], futures[k].result[1])

\* C18: results is appended to by the main thread alone, in the order of
\* the projects, and when the report is printed it holds exactly one
\* SupportResult per listed project, the one its task returned.
C18_OneResultPerProject ==
    tool = "py314_support" =>
        /\ pc = "map" =>
              support_results = [k \in 1..(idx - 1) |-> ResultOf(k)]
        /\ (pc = "done" /\ projects # << >>) =>
              /\ Len(support_results) = Len(projects)
              /\ \A k \in 1..Len(projects) :
                    Cardinality({j \in 1..Len(support_results) :
                                    support_results[j].name = projects[k]}) = 1
              /\ \A k \in 1..Len(projects) :
                    \E j \in 1..Len(support_results) : support_results[j] = ResultOf(k)

\* three workers ran the three tasks at once and finished out of order
C18_Witness ==
    /\ tool = "py314_support" /\ pc = "done"
    /\ max_workers = 3
    /\ Len(projects) = 3
    /\ <<projects[2], "finished", 0>> \in facts
    /\ <<projects[1], "finished", 1>> \in facts
    /\ Len(support_results) = 3

-----------------------------------------------------------------------------
(* C17 *)

\* the releases are inspected one by one from the head of versions
InspectedFromHead ==
    /\ Len(inspected) <= Len(versions)
    /\ \A k \in 1..Len(inspected) : inspected[k].version = versions[k]

\* no release's version is above that of a release before it
Descending(vs) ==
    \A j, k \in 1..Len(vs) :
        j < k => ~VersionLess(version_key(vs[j]), version_key(vs[k]))

\* C17: check_project inspects the releases in descending version order,
\* stops at the first release that supports 3.14 and returns it, so that
\* every release above the returned one was inspected without a match; it
\* returns unsupported only when every release of the list was inspected
\* without a match.
C17_NewestSupportingRelease ==
    (fn = "check_project" /\ pc \in {"loop", "done"}) =>
        /\ Descending(versions)
        /\ arg.status_code = 200 =>
              {versions[k] : k \in 1..Len(versions)}
                  = {arg.releases[k] : k \in 1..Len(arg.releases)}
        /\ InspectedFromHead
        /\ \A k \in 1..(Len(inspected) - 1) : ~inspected[k].ok
        /\ (pc = "done" /\ ret[1].supported) =>
              /\ inspected[Len(inspected)].ok
              /\ ret[1].version = Some(inspected[Len(inspected)].version)
              /\ \A k \in 1..Len(versions) :
                    VersionLess(version_key(ret[1].version[1]), version_key(versions[k]))
                        => k < Len(inspected) /\ ~inspected[k].ok
        /\ (pc = "done" /\ ~ret[1].supported) =>
              /\ Len(inspected) = Len(versions)
              /\ \A k \in 1..Len(inspected) : ~inspected[k].ok

\* 1.9 is listed before 1.10; 1.10 is inspected first and does not match,
\* 1.9 matches and is returned, the invalid version x is not inspected
C17_Witness ==
    /\ fn = "check_project" /\ pc = "done"
    /\ arg.releases = << <<"x">>, <<"1", ".", "9">>, <<"1", ".", "1", "0">> >>
    /\ Len(inspected) = 2
    /\ inspected[1] = [version |-> <<"1", ".", "1", "0">>, ok |-> FALSE]
    /\ ret[1].supported
    /\ ret[1].version = Some(<<"1", ".", "9">>)

-----------------------------------------------------------------------------
(* C19 *)

\* C19: a child directory without a .git entry is no repository for the
\* tool, and no fact is collected for it.
C19_NoFactsWithoutDotGit ==
    tool = "abandoned_repo" =>
        \A k \in 1..Len(entries) :
            (entries[k].is_dir /\ ~entries[k].dotgit) =>
                /\ \A c \in {"failed", "non_numeric", "zero", "nonzero"} :
                      <<entries[k].name, "count", c>> \notin facts
                /\ \A j \in 1..Len(results) : results[j].path # entries[k].name

-----------------------------------------------------------------------------
(* C20 *)
\* C20: when the output of `gh run list` does not parse as JSON, the tool
\* logs an error for that call and never reports the repository as having
\* no runs.
C20_UnparsableNotEmpty ==
    tool = "clean_up_actions" =>
        \A d \in CleanNames :
            <<d, "runs", "malformed">> \in facts =>
                /\ Logged("json_parse_failed", d)
                /\ ~Logged("no_runs", d)

-----------------------------------------------------------------------------
(* C22 *)
DeletedRuns(d) == {f[3] : f \in {g \in facts : g[1] = d /\ g[2] = "delete"}}

AcceptedRepo(d) ==
    /\ \E k \in 1..Len(entries) :
          entries[k].name = d /\ entries[k].is_dir /\ ~IsHidden(entries[k])
    /\ \E c \in {"dotgit", "work_tree"} : <<d, "repo", c>> \in facts

-----------------------------------------------------------------------------
(* C23 *)
Runs_(d, c) == {k \in 1..Len(ran) : ran[k] = <<d, c>>}

GitChild(d) ==
    \E k \in 1..Len(entries) :
        entries[k].name = d /\ entries[k].is_dir /\ entries[k].dotgit

\* C23: cmd_push runs `git push` in a child directory exactly when it is a
\* git repository whose ahead count is known and greater than 0, at most
\* once per repository, and runs nothing but rev-list and push.
C23_PushIffAhead ==
    (tool = "git_it" /\ command = "push") =>
        /\ \A k \in 1..Len(ran) : ran[k][2] \in {"rev-list", "push"}
        /\ \A d \in EntryNames :
            /\ Cardinality(Runs_(d, "push")) <= 1
            /\ Runs_(d, "push") # {} <=> (GitChild(d) /\ <<d, "count", "nonzero">> \in facts)
            /\ \A k \in Runs_(d, "push") : \E j \in Runs_(d, "rev-list") : j < k
        /\ pc = "done" =>
              \A d \in EntryNames : GitChild(d) => Cardinality(Runs_(d, "rev-list")) = 1

C23_Witness ==
    /\ tool = "git_it" /\ command = "push" /\ pc = "done"
    /\ \E d \in EntryNames : Runs_(d, "push") # {}
    /\ \E d \in EntryNames : GitChild(d) /\ <<d, "count", "zero">> \in facts

-----------------------------------------------------------------------------
(* C27 *)
Elements(l) == {l[k] : k \in 1..Len(l)}

UnpushedNames == {unpushed[k][1] : k \in 1..Len(unpushed)}

\* C27: cmd_stranded lists a directory as clean only when its status is
\* known to show no change and its ahead count is known to be 0; clean is
\* disjoint from uncommitted, unpushed and non_git, and non_git is disjoint
\* from the other three lists.
C27_CleanOnlyWhenKnown ==
    (tool = "git_it" /\ command \in Stranded) =>
        /\ \A d \in Elements(clean) :
              /\ <<d, "status", "no_changes">> \in facts
              /\ <<d, "count", "zero">> \in facts
        /\ Elements(clean) \cap Elements(uncommitted) = {}
        /\ Elements(clean) \cap UnpushedNames = {}
        /\ Elements(clean) \cap Elements(non_git) = {}
        /\ Elements(non_git) \cap Elements(uncommitted) = {}
        /\ Elements(non_git) \cap UnpushedNames = {}

C27_Witness ==
    /\ tool = "git_it" /\ command \in Stranded /\ pc = "done"
    /\ clean # << >>
    /\ \E d \in EntryNames :
          <<d, "status", "failed">> \in facts /\ <<d, "count", "zero">> \in facts

-----------------------------------------------------------------------------
(* C28 *)
InSomeList(d) ==
    d \in Elements(uncommitted) \cup UnpushedNames \cup Elements(clean)
            \cup Elements(non_git)

Indeterminate(d) ==
    \/ <<d, "status", "failed">> \in facts
    \/ <<d, "count", "failed">> \in facts
    \/ <<d, "count", "non_numeric">> \in facts

Finding(d) ==
    \/ <<d, "status", "changes">> \in facts
    \/ <<d, "count", "nonzero">> \in facts

\* C28: after cmd_stranded's loop, a git repository is in none of the four
\* lists exactly when one of its two facts is indeterminate and neither
\* known fact is a finding; every other child directory is in some list.
C28_DroppedIffIndeterminate ==
    (tool = "git_it" /\ command \in Stranded /\ pc = "done") =>
        \A k \in 1..Len(entries) :
            entries[k].is_dir =>
                LET d == entries[k].name
                IN  ~InSomeList(d) <=>
                        (entries[k].dotgit /\ Indeterminate(d) /\ ~Finding(d))

C28_Witness ==
    /\ tool = "git_it" /\ command \in Stranded /\ pc = "done"
    /\ \E k \in 1..Len(entries) :
          entries[k].is_dir /\ entries[k].dotgit /\ ~InSomeList(entries[k].name)
    /\ \E d \in EntryNames : Indeterminate(d) /\ InSomeList(d)

-----------------------------------------------------------------------------
(* C29 *)
GitChildren == {entries[k].name : k \in {j \in 1..Len(entries) :
                                            entries[j].is_dir /\ entries[j].dotgit}}

\* ran is fetch, pull, fetch, pull, ... : the pair of each repository
FetchThenPull ==
    /\ Len(ran) % 2 = 0
    /\ \A k \in 1..Len(ran) :
          IF k % 2 = 1
          THEN ran[k][2] = "fetch" /\ ran[k + 1] = <<ran[k][1], "pull">>
          ELSE ran[k][2] = "pull"

\* C29: cmd_pull runs `git fetch --all` and then `git pull` in every git
\* child directory, in case-insensitive name order, the pull also after a
\* failed fetch, and a failure in one repository does not keep the
\* following ones from their fetch and pull.
C29_FetchThenPullEverywhere ==
    (tool = "git_it" /\ command = "pull") =>
        /\ FetchThenPull
        /\ \A j, k \in 1..Len(ran) :
              j < k => ~StrLess(Lower(ran[k][1]), Lower(ran[j][1]))
        /\ \A d \in EntryNames :
              /\ Cardinality(Runs_(d, "fetch")) <= 1
              /\ Runs_(d, "fetch") # {} => d \in GitChildren
        /\ pc = "done" => \A d \in GitChildren : Runs_(d, "fetch") # {}

C29_Witness ==
    /\ tool = "git_it" /\ command = "pull" /\ pc = "done"
    /\ Len(ran) = 4
    /\ <<ran[1][1], "fetch", "failed">> \in facts
    /\ <<ran[1][1], "pull", "failed">> \in facts

-----------------------------------------------------------------------------
(* C25 *)
\* a step of the scanner moves to the next line, or leaves the inner loop
\* at the same line, or returns
Progresses ==
    \/ i' = i + 1
    \/ i' = i /\ ~IsNone(block) /\ IsNone(block')
    \/ i' = i /\ pc = "scan" /\ pc' = "returned"

\* C25: the scanner terminates on every text: each step of the outer and
\* inner loops moves the line index forward by one or leaves the inner
\* loop, the index never exceeds the number of lines, and a line is read
\* as a block member at most once (reading a member moves the index on).
C25_ScannerTerminates ==
    /\ <>(pc = "returned")
    /\ [](i <= Len(lines))
    /\ [][Progresses]_vars
    /\ [][legacy_versions' # legacy_versions => i' = i + 1]_vars

C25_Witness ==
    /\ pc = "returned"
    /\ i = Len(lines)
    /\ lines = <<BlockKey, Member310, BlockKey, Member3131>>
    /\ legacy_versions = {<<"3", ".", "1", "0">>, <<"3", ".", "1", "3", ".", "1">>}

-----------------------------------------------------------------------------
(* C26 *)
\* what the scanner must have collected from line j when it reads it as a key
KeyVersions(j) ==
    IF IsBlockKey(j)
    THEN UNION {LegacyIn(lines[m]) :
                   m \in {x \in (j + 1)..(BlockStop(j) - 1) : ~IsSkipped(lines[x])}}
    ELSE LegacyIn(AfterColon(lines[j]))

\* C26: the line that ends a block is left to the outer loop, which reads
\* it as a possible python-version key: when it is a key, its versions are
\* collected too, so of two keys at the same indentation, the second right
\* after the first one's block, neither loses its versions.
C26_BlockEndLineRescanned ==
    /\ [][(~IsNone(block) /\ IsNone(block')) => i' = i]_vars
    /\ [](pc = "returned" =>
            /\ \A k \in 1..Len(lines) :
                  (IsBlockKey(k) /\ ReadAsKey(k) /\ BlockStop(k) <= Len(lines)
                        /\ IsKeyLine(lines[BlockStop(k)])) =>
                      KeyVersions(k) \cup KeyVersions(BlockStop(k)) \subseteq legacy_versions
            /\ lines = <<BlockKey, Member3131, BlockKey, Member310>> =>
                  legacy_versions = {<<"3", ".", "1", "0">>,
                                     <<"3", ".", "1", "3", ".", "1">>})

C26_Witness ==
    /\ pc = "returned"
    /\ lines = <<BlockKey, Member3131, BlockKey, Member310>>
    /\ legacy_versions = {<<"3", ".", "1", "0">>, <<"3", ".", "1", "3", ".", "1">>}

-----------------------------------------------------------------------------
(* C30 *)
\* the owner object is missing or carries no login
NoLogin(owner) == IsNone(owner) \/ IsNone(owner[1].login)

\* C30: for a non-empty username, a fork owned by the username whose parent
\* is missing or has no owner login is reported as a fork of another user,
\* and a repo whose owner login is missing or is not the username is never
\* reported, whatever its parent.
C30_MissingParentIsOtherUser ==
    (fn = "is_fork_of_other_user" /\ pc = "done" /\ arg.username # "") =>
        /\ ( /\ arg.repo_info.isFork = Some(TRUE)
             /\ HasLogin(arg.repo_info.owner, arg.username)
             /\ NoLogin(ParentOwner(arg.repo_info)) ) => ret = TRUE
        /\ ~HasLogin(arg.repo_info.owner, arg.username) => ret = FALSE

C30_Witness ==
    /\ fn = "is_fork_of_other_user" /\ pc = "done"
    /\ arg.username = "bob"
    /\ arg.repo_info.isFork = Some(TRUE)
    /\ HasLogin(arg.repo_info.owner, "bob")
    /\ IsNone(arg.repo_info.parent)
    /\ ret = TRUE

-----------------------------------------------------------------------------
(* C24 *)
OwnerRepo == <<"o", "/", "r">>

\* the four URL shapes of the docstring, for owner o and repo r
SupportedShapes ==
    { GIT_AT \o GITHUB_COM \o <<":">> \o OwnerRepo \o DOT_GIT,
      HTTPS \o GITHUB_COM \o <<"/">> \o OwnerRepo \o DOT_GIT,
      HTTPS \o GITHUB_COM \o <<"/">> \o OwnerRepo,
      SSH \o GIT_AT \o GITHUB_COM \o <<"/">> \o OwnerRepo \o DOT_GIT }

\* C24: parse_github_remote returns (owner, repo), a trailing .git
\* removed, for each of the four URL shapes its docstring lists, and None
\* for a URL that does not contain github.com or has no owner/repo path.
C24_SupportedShapesParsed ==
    (fn = "parse_github_remote" /\ pc = "done") =>
        /\ Strip(arg) \in SupportedShapes => ret = Some(<<<<"o">>, <<"r">>>>)
        /\ ~Contains(arg, GITHUB_COM) => ret = None
        /\ (\E s \in RemoteSchemes, c \in {<<":">>, <<"/">>}, p \in {<< >>, <<"o">>} :
               Strip(arg) = s \o GITHUB_COM \o c \o p) => ret = None

-----------------------------------------------------------------------------
(* C21 *)
Occurrences(seq, x) == Cardinality({k \in 1..Len(seq) : seq[k] = x})

\* a fetched repository that belongs in the report
Uncloned(r) ==
    /\ ~r.fork
    /\ ~r.archived
    /\ ~\E e \in arg.entries : e.is_dir /\ e.name = r.name

\* C21: the not-cloned report holds exactly the fetched repositories that
\* are no forks, not archived and not named like a local child directory,
\* each as often as it was fetched, in non-increasing order of updated_at.
C21_ReportExactAndSorted ==
    (fn \in {"compute_uncloned_repos", "not_cloned_missing"} /\ pc = "done") =>
        /\ \A r \in FetchedRepos :
              Occurrences(ret, r) = IF Uncloned(r) THEN Occurrences(arg.repos, r) ELSE 0
        /\ \A j, k \in 1..Len(ret) : j < k => ret[j].updated_at >= ret[k].updated_at

C21_Witness ==
    /\ fn = "compute_uncloned_repos" /\ pc = "done"
    /\ Len(arg.repos) = 2
    /\ arg.repos[1].updated_at < arg.repos[2].updated_at
    /\ \E e \in arg.entries : ~e.is_dir /\ e.name = arg.repos[1].name
    /\ ret = <<arg.repos[2], arg.repos[1]>>

====
